---- MODULE Spec2Model ----
\* A model of lucanthrope's storage core: the in-memory directory
\* (lib/storage/RAMDirectory.cpp), its writers, readers and lock handles, and
\* the binary codec of IndexOutput / IndexInput.
\*
\* Conventions of the directory part.
\*  - Every public operation of RAMDirectory runs its whole body under mu_
\*    (std::lock_guard, or a manual lock()/unlock() pair), so one critical
\*    section is one action.  unrefReader and deleteFile leave the critical
\*    section before `delete file`; that statement is the separate action
\*    DeleteRAMFile, enabled while the deleting thread is between the two.
\*  - assert(...) is compiled in: a failed assertion stops the program
\*    (fatal = "assert") at the statement that holds it.
\*  - Undefined behaviour is a choice among the outcomes it can have, one of
\*    which is a crash (fatal = "ub").
EXTENDS Integers, Sequences, FiniteSets, TLC

\* ---------------------------------------------------------------- bounds
MaxFiles == 2
MaxReaders == 1
MaxLocks == 1
MaxLen == 1
\* dummy_file.refs_ only ever goes down; it is followed down to -MaxUnrefs.
MaxUnrefs == 2

\* File names are character sequences; <<1>> is a prefix of <<1, 2>>.
Names == {<<1>>, <<1, 2>>}
Prefixes == {<<1>>, <<1, 2>>}
Bytes == {7, 9}

FileIds == 1..MaxFiles
ReaderIds == 1..MaxReaders
LockIds == 1..MaxLocks

\* &dummy_file, the value every placeholder entry of the table holds.
DummyFile == 0
\* The value operator[] default-inserts for a missing key.
NullPtr == MaxFiles + 1

VARIABLES
  files,       \* RAMDirectory::files: a function from the occupied names
  ramfiles,    \* the RAMFile objects: st, refs_, length, blocks_, name
  dummy_refs,  \* dummy_file.refs_
  outputs,     \* the RAMFileIndexOutput of each RAMFile: st, pos, bufStart
  inputs,      \* the live RAMFileIndexInput objects: st, file, got (bytes read)
  lockfiles,   \* the live RAMDirectoryLockFile objects: st, name
  todelete,    \* per RAMFile: threads past mu_.unlock() that will `delete` it
  deallocs,    \* per RAMFile: how many times `delete file` ran
  fatal,       \* "none", "assert" (failed assertion) or "ub" (crash)
  last,        \* the last operation: op, name, res, val
  codec,       \* one encode / decode run of the binary codec
  stream,      \* one in-memory file: its writer, its blocks and its reader
  tokenizer,   \* one CharTokenizer over one input stream
  mu_,         \* RAMDirectory::mu_: the thread that holds it, or Unlocked
  threads      \* per thread: the call it is in, where, and its locals

dirvars == <<files, ramfiles, dummy_refs, outputs, inputs, lockfiles, todelete,
             deallocs, fatal, last>>

\* The state of the other parts of the model, which no directory action touches.
nondir == <<codec, stream, tokenizer, mu_, threads>>

vars == <<dirvars, nondir>>

\* ------------------------------------------------------------ helpers
NoFile == [st |-> "none", refs_ |-> 0, length |-> 0, blocks_ |-> <<>>, name |-> <<>>]
NoOutput == [st |-> "none", pos |-> 0, bufStart |-> 0]
NoInput == [st |-> "none", file |-> DummyFile, got |-> <<>>]
NoLock == [st |-> "none", name |-> <<>>]

Erase(tbl, n) == [m \in (DOMAIN tbl) \ {n} |-> tbl[m]]
Put(tbl, n, v) == [m \in (DOMAIN tbl) \cup {n} |-> IF m = n THEN v ELSE tbl[m]]

Outcome(op, n, res) == [op |-> op, name |-> n, res |-> res, val |-> 0]
OutcomeVal(op, n, res, v) == [op |-> op, name |-> n, res |-> res, val |-> v]

\* segment == pair.first.substr(0, size), guarded by pair.first.size() >= size
StartsWith(name, segment) ==
  Len(name) >= Len(segment) /\ SubSeq(name, 1, Len(segment)) = segment

FreshIds(f) == {i \in DOMAIN f : f[i].st = "none"}
Fresh(f) == CHOOSE i \in FreshIds(f) : \A j \in FreshIds(f) : i <= j

OpenReadersOf(f) == {r \in ReaderIds : inputs[r].st = "open" /\ inputs[r].file = f}
InTable(f) == \E n \in DOMAIN files : files[n] = f

\* The program has not stopped and the directory has not been destroyed.
Running == fatal = "none" /\ last.op # "~RAMDirectory"

CodecIdle == [pc |-> "idle", kind |-> "none", num |-> <<>>, bytes |-> <<>>,
              out |-> <<>>, err |-> "none"]

\* The parts of a stream run: the RAMFile, its RAMFileIndexOutput and its
\* RAMFileIndexInput.  A buffer pointer is an offset into the block
\* blocks_[current_block]; hasBuffer says that bufStart is not null.
NoRAMFile == [blocks_ |-> <<>>, length |-> 0]
NoWriter == [hasBuffer |-> FALSE, current_block |-> 0, bufStart |-> 0, bufCur |-> 0,
             bufEnd |-> 0, pos |-> 0]
NoReader == [hasBuffer |-> FALSE, current_block |-> 0, bufStart |-> 0, bufCur |-> 0,
             bufEnd |-> 0, sentinel |-> 0, pos |-> 0, last_block |-> 0,
             last_block_bytes |-> 0, seeks |-> 0]
NoResult == [op |-> "none", arg |-> 0, at |-> 0, bytes |-> <<>>, val |-> <<>>,
             eof |-> FALSE, err |-> "none"]
\* No stream run.
StreamIdle == [pc |-> "idle", script |-> <<>>, written |-> <<>>, file |-> NoRAMFile,
               out |-> NoWriter, in |-> NoReader, fatal |-> "none", res |-> NoResult]

\* No tokenizer run.  input_ is the text, how many characters of it were
\* extracted, and the stream's eofbit; tokens are the tokens next() produced.
TokenizerIdle == [pc |-> "idle", isTokenChar |-> "none", normalize |-> "none",
                  text |-> <<>>, read |-> 0, eofbit |-> FALSE, offset |-> 0,
                  tokens |-> <<>>, ret |-> TRUE]

\* The threads of the interleaved model, and mu_ when no thread holds it.
MaxThreads == 2
ThreadIds == 1..MaxThreads
Unlocked == 0
\* A thread outside every call, holding no writer, reader or lock handle.
ThreadIdle == [pc |-> "idle", op |-> "none", file |-> DummyFile, c |-> 0, writer |-> 0,
               reader |-> 0, lock |-> FALSE, res |-> "none", raced |-> FALSE]

DirInit ==
  /\ files = [n \in {} |-> DummyFile]
  /\ mu_ = Unlocked
  /\ threads = [t \in ThreadIds |-> ThreadIdle]
  /\ ramfiles = [f \in FileIds |-> NoFile]
  /\ dummy_refs = 0
  /\ outputs = [f \in FileIds |-> NoOutput]
  /\ inputs = [r \in ReaderIds |-> NoInput]
  /\ lockfiles = [l \in LockIds |-> NoLock]
  /\ todelete = [f \in FileIds |-> 0]
  /\ deallocs = [f \in FileIds |-> 0]
  /\ fatal = "none"
  /\ last = Outcome("init", <<>>, "ok")

\* ------------------------------------------------------- createOutput
\* createOutput with the entry check narrowed to committed files.
CreateOutput_OverwritesPlaceholder(n) ==
  /\ Running
  /\ IF n \in DOMAIN files /\ files[n] # DummyFile
       THEN /\ last' = Outcome("createOutput", n, "FileAlreadyExists")
            /\ UNCHANGED <<files, ramfiles, outputs>>
       ELSE /\ FreshIds(ramfiles) # {}
            /\ LET f == Fresh(ramfiles) IN
                 /\ ramfiles' = [ramfiles EXCEPT ![f] = [NoFile EXCEPT !.st = "alive", !.name = n]]
                 /\ outputs' = [outputs EXCEPT ![f] = [NoOutput EXCEPT !.st = "open"]]
                 /\ files' = Put(files, n, DummyFile)
            /\ last' = Outcome("createOutput", n, "ok")
  /\ UNCHANGED <<dummy_refs, inputs, lockfiles, todelete, deallocs, fatal>>
  /\ UNCHANGED nondir

\* createOutput that puts the new RAMFile itself in the table.
CreateOutput_PublishesFile(n) ==
  /\ Running
  /\ IF n \in DOMAIN files
       THEN /\ last' = Outcome("createOutput", n, "FileAlreadyExists")
            /\ UNCHANGED <<files, ramfiles, outputs>>
       ELSE /\ FreshIds(ramfiles) # {}
            /\ LET f == Fresh(ramfiles) IN
                 /\ ramfiles' = [ramfiles EXCEPT ![f] = [NoFile EXCEPT !.st = "alive", !.name = n]]
                 /\ outputs' = [outputs EXCEPT ![f] = [NoOutput EXCEPT !.st = "open"]]
                 /\ files' = Put(files, n, f)
            /\ last' = Outcome("createOutput", n, "ok")
  /\ UNCHANGED <<dummy_refs, inputs, lockfiles, todelete, deallocs, fatal>>
  /\ UNCHANGED nondir

\* createOutput that reopens a committed file for writing, emptied.
CreateOutput_Truncates(n) ==
  /\ Running
  /\ IF n \in DOMAIN files /\ files[n] = DummyFile
       THEN /\ last' = Outcome("createOutput", n, "FileAlreadyExists")
            /\ UNCHANGED <<files, ramfiles, outputs>>
       ELSE IF n \in DOMAIN files
       THEN /\ ramfiles' = [ramfiles EXCEPT ![files[n]].length = 0, ![files[n]].blocks_ = <<>>]
            /\ outputs' = [outputs EXCEPT ![files[n]] = [NoOutput EXCEPT !.st = "open"]]
            /\ last' = Outcome("createOutput", n, "ok")
            /\ UNCHANGED files
       ELSE /\ FreshIds(ramfiles) # {}
            /\ LET f == Fresh(ramfiles) IN
                 /\ ramfiles' = [ramfiles EXCEPT ![f] = [NoFile EXCEPT !.st = "alive", !.name = n]]
                 /\ outputs' = [outputs EXCEPT ![f] = [NoOutput EXCEPT !.st = "open"]]
                 /\ files' = Put(files, n, DummyFile)
            /\ last' = Outcome("createOutput", n, "ok")
  /\ UNCHANGED <<dummy_refs, inputs, lockfiles, todelete, deallocs, fatal>>
  /\ UNCHANGED nondir

CreateOutput(n) ==
  /\ Running
  /\ IF n \in DOMAIN files
       THEN /\ last' = Outcome("createOutput", n, "FileAlreadyExists")
            /\ UNCHANGED <<files, ramfiles, outputs>>
       ELSE /\ FreshIds(ramfiles) # {}
            /\ LET f == Fresh(ramfiles) IN
                 /\ ramfiles' = [ramfiles EXCEPT ![f] = [NoFile EXCEPT !.st = "alive", !.name = n]]
                 /\ outputs' = [outputs EXCEPT ![f] = [NoOutput EXCEPT !.st = "open"]]
                 /\ files' = Put(files, n, DummyFile)
            /\ last' = Outcome("createOutput", n, "ok")
  /\ UNCHANGED <<dummy_refs, inputs, lockfiles, todelete, deallocs, fatal>>
  /\ UNCHANGED nondir

\* IndexOutput::writeByte on a RAMFileIndexOutput: the byte goes straight into
\* the current block and pos advances; file->length is not touched.
WriteByte(f, c) ==
  /\ Running
  /\ outputs[f].st = "open"
  /\ outputs[f].pos < MaxLen
  /\ ramfiles' = [ramfiles EXCEPT ![f].blocks_ = Append(@, c)]
  /\ outputs' = [outputs EXCEPT ![f].pos = @ + 1]
  /\ last' = Outcome("writeByte", <<>>, "ok")
  /\ UNCHANGED <<files, dummy_refs, inputs, lockfiles, todelete, deallocs, fatal>>
  /\ UNCHANGED nondir

\* IndexOutput::flush on a RAMFileIndexOutput whose block is not full
\* (MaxLen bytes never fill a block): flushNonEmpty() runs only when
\* bufCur != bufStart; writeImpl raises file->length to pos and moves bufStart
\* up to bufCur.
Flush(f) ==
  /\ Running
  /\ outputs[f].st = "open"
  /\ outputs[f].pos # outputs[f].bufStart
  /\ ramfiles' = [ramfiles EXCEPT ![f].length = IF @ < outputs[f].pos THEN outputs[f].pos ELSE @]
  /\ outputs' = [outputs EXCEPT ![f].bufStart = outputs[f].pos]
  /\ last' = Outcome("flush", <<>>, "ok")
  /\ UNCHANGED <<files, dummy_refs, inputs, lockfiles, todelete, deallocs, fatal>>
  /\ UNCHANGED nondir

\* RAMDirectory::commit(fname, file), called by the writer's destructor.
\* files[fname] in the assertion inserts a null entry when the key is missing.
Commit(f, len) ==
  LET fname == ramfiles[f].name
      tbl == IF fname \in DOMAIN files THEN files ELSE Put(files, fname, NullPtr)
  IN IF tbl[fname] # DummyFile
       THEN /\ fatal' = "assert"
            /\ files' = tbl
            /\ ramfiles' = [ramfiles EXCEPT ![f].length = len]
            /\ UNCHANGED outputs
            /\ last' = Outcome("close", fname, "fatal")
       ELSE /\ ramfiles' = [ramfiles EXCEPT ![f].length = len, ![f].refs_ = 1]
            /\ files' = Put(tbl, fname, f)
            /\ outputs' = [outputs EXCEPT ![f] = [NoOutput EXCEPT !.st = "closed"]]
            /\ last' = Outcome("close", fname, "ok")
            /\ UNCHANGED fatal

\* ~RAMFileIndexOutput: length = max(length, pos), then finish_writing().
\* A failed assertion in commit stops the program inside the destructor.
CloseOutput(f) ==
  /\ Running
  /\ outputs[f].st = "open"
  /\ Commit(f, IF ramfiles[f].length < outputs[f].pos
                 THEN outputs[f].pos ELSE ramfiles[f].length)
  /\ UNCHANGED <<dummy_refs, inputs, lockfiles, todelete, deallocs>>
  /\ UNCHANGED nondir

\* ---------------------------------------------------------- openInput
\* openInput that reports a placeholder as an exception.
OpenInput_ThrowsOnPlaceholder(n) ==
  /\ Running
  /\ IF n \notin DOMAIN files
       THEN /\ last' = Outcome("openInput", n, "FileNotFound")
            /\ UNCHANGED <<ramfiles, inputs, fatal>>
       ELSE IF files[n] = DummyFile
       THEN /\ last' = Outcome("openInput", n, "FileNotFound")
            /\ UNCHANGED <<ramfiles, inputs, fatal>>
       ELSE IF ramfiles[files[n]].length = 0
       THEN /\ fatal' = "assert"
            /\ last' = Outcome("openInput", n, "fatal")
            /\ UNCHANGED <<ramfiles, inputs>>
       ELSE /\ FreshIds(inputs) # {}
            /\ LET f == files[n]
                   r == Fresh(inputs)
               IN /\ inputs' = [inputs EXCEPT ![r] = [st |-> "open", file |-> f, got |-> <<>>]]
                  /\ ramfiles' = [ramfiles EXCEPT ![f].refs_ = @ + 1]
            /\ last' = Outcome("openInput", n, "ok")
            /\ UNCHANGED fatal
  /\ UNCHANGED <<files, dummy_refs, outputs, lockfiles, todelete, deallocs>>
  /\ UNCHANGED nondir

\* The RAMFileIndexInput constructor asserts that the file is not empty.
OpenInput(n) ==
  /\ Running
  /\ IF n \notin DOMAIN files
       THEN /\ last' = Outcome("openInput", n, "FileNotFound")
            /\ UNCHANGED <<ramfiles, inputs, fatal>>
       ELSE IF files[n] = DummyFile \/ ramfiles[files[n]].length = 0
       THEN /\ fatal' = "assert"
            /\ last' = Outcome("openInput", n, "fatal")
            /\ UNCHANGED <<ramfiles, inputs>>
       ELSE /\ FreshIds(inputs) # {}
            /\ LET f == files[n]
                   r == Fresh(inputs)
               IN /\ inputs' = [inputs EXCEPT ![r] = [st |-> "open", file |-> f, got |-> <<>>]]
                  /\ ramfiles' = [ramfiles EXCEPT ![f].refs_ = @ + 1]
            /\ last' = Outcome("openInput", n, "ok")
            /\ UNCHANGED fatal
  /\ UNCHANGED <<files, dummy_refs, outputs, lockfiles, todelete, deallocs>>
  /\ UNCHANGED nondir

\* IndexInput::readByte on a byte inside the file's length: the next byte of
\* the file's blocks.  Reading the blocks of a RAMFile that was deleted yields
\* an arbitrary byte.
ReadByte(r) ==
  /\ Running
  /\ inputs[r].st = "open"
  /\ LET f == inputs[r].file
         at == Len(inputs[r].got) + 1
     IN /\ at <= (IF ramfiles[f].st = "alive" THEN ramfiles[f].length ELSE MaxLen)
        /\ \E b \in Bytes :
             /\ ramfiles[f].st = "alive" => b = ramfiles[f].blocks_[at]
             /\ inputs' = [inputs EXCEPT ![r].got = Append(@, b)]
        /\ last' = Outcome("readByte", <<>>, "ok")
  /\ UNCHANGED <<files, ramfiles, dummy_refs, outputs, lockfiles, todelete, deallocs,
                 fatal>>
  /\ UNCHANGED nondir

\* unrefReader that never deletes the file.
UnrefReader_NeverDeletes(f) ==
  /\ ramfiles' = [ramfiles EXCEPT ![f].refs_ = @ - 1]
  /\ UNCHANGED todelete

\* RAMDirectory::unrefReader up to mu_.unlock(); c == 0 leaves the thread in
\* front of `delete file`.
UnrefReader(f) ==
  /\ ramfiles' = [ramfiles EXCEPT ![f].refs_ = @ - 1]
  /\ todelete' = [todelete EXCEPT ![f] = IF ramfiles[f].refs_ - 1 = 0 THEN @ + 1 ELSE @]

\* ~RAMFileIndexInput: finish_reading().
CloseInput(r) ==
  /\ Running
  /\ inputs[r].st = "open"
  /\ inputs' = [inputs EXCEPT ![r] = NoInput]
  /\ UnrefReader(inputs[r].file)
  /\ last' = Outcome("closeInput", <<>>, "ok")
  /\ UNCHANGED <<files, dummy_refs, outputs, lockfiles, deallocs, fatal>>
  /\ UNCHANGED nondir

\* `delete file` after mu_.unlock() in unrefReader and deleteFile; ~RAMFile
\* asserts refs_ == 0 and frees the blocks.  Deleting a RAMFile twice crashes.
DeleteRAMFile(f) ==
  /\ Running
  /\ todelete[f] > 0
  /\ todelete' = [todelete EXCEPT ![f] = @ - 1]
  /\ IF ramfiles[f].st = "freed"
       THEN /\ fatal' = "ub"
            /\ deallocs' = [deallocs EXCEPT ![f] = @ + 1]
            /\ UNCHANGED ramfiles
       ELSE IF ramfiles[f].refs_ # 0
       THEN /\ fatal' = "assert"
            /\ UNCHANGED <<ramfiles, deallocs>>
       ELSE /\ ramfiles' = [ramfiles EXCEPT ![f] = [NoFile EXCEPT !.st = "freed"]]
            /\ deallocs' = [deallocs EXCEPT ![f] = @ + 1]
            /\ UNCHANGED fatal
  /\ last' = Outcome("delete", <<>>, "ok")
  /\ UNCHANGED <<files, dummy_refs, outputs, inputs, lockfiles>>
  /\ UNCHANGED nondir

\* ---------------------------------------------------------- deleteFile
\* deleteFile that deletes the file whatever ref_count is.
DeleteFile_DeletesOpenFile(n) ==
  /\ Running
  /\ IF n \notin DOMAIN files
       THEN /\ last' = Outcome("deleteFile", n, "FileNotFound")
            /\ UNCHANGED <<files, ramfiles, todelete, fatal>>
       ELSE IF files[n] = DummyFile
       THEN /\ fatal' = "assert"
            /\ last' = Outcome("deleteFile", n, "fatal")
            /\ UNCHANGED <<files, ramfiles, todelete>>
       ELSE LET f == files[n] IN
            /\ files' = Erase(files, n)
            /\ ramfiles' = [ramfiles EXCEPT ![f].refs_ = @ - 1]
            /\ todelete' = [todelete EXCEPT ![f] = @ + 1]
            /\ last' = Outcome("deleteFile", n, "ok")
            /\ UNCHANGED fatal
  /\ UNCHANGED <<dummy_refs, outputs, inputs, lockfiles, deallocs>>
  /\ UNCHANGED nondir

\* deleteFile that returns normally when the name is absent.
DeleteFile_IgnoresAbsent(n) ==
  /\ Running
  /\ IF n \notin DOMAIN files
       THEN /\ last' = Outcome("deleteFile", n, "ok")
            /\ UNCHANGED <<files, ramfiles, todelete, fatal>>
       ELSE IF files[n] = DummyFile
       THEN /\ fatal' = "assert"
            /\ last' = Outcome("deleteFile", n, "fatal")
            /\ UNCHANGED <<files, ramfiles, todelete>>
       ELSE LET f == files[n] IN
            /\ files' = Erase(files, n)
            /\ ramfiles' = [ramfiles EXCEPT ![f].refs_ = @ - 1]
            /\ todelete' = [todelete EXCEPT ![f] =
                              IF ramfiles[f].refs_ - 1 = 0 THEN @ + 1 ELSE @]
            /\ last' = Outcome("deleteFile", n, "ok")
            /\ UNCHANGED fatal
  /\ UNCHANGED <<dummy_refs, outputs, inputs, lockfiles, deallocs>>
  /\ UNCHANGED nondir

DeleteFile(n) ==
  /\ Running
  /\ IF n \notin DOMAIN files
       THEN /\ last' = Outcome("deleteFile", n, "FileNotFound")
            /\ UNCHANGED <<files, ramfiles, todelete, fatal>>
       ELSE IF files[n] = DummyFile
       THEN /\ fatal' = "assert"
            /\ last' = Outcome("deleteFile", n, "fatal")
            /\ UNCHANGED <<files, ramfiles, todelete>>
       ELSE LET f == files[n] IN
            /\ files' = Erase(files, n)
            /\ ramfiles' = [ramfiles EXCEPT ![f].refs_ = @ - 1]
            /\ todelete' = [todelete EXCEPT ![f] =
                              IF ramfiles[f].refs_ - 1 = 0 THEN @ + 1 ELSE @]
            /\ last' = Outcome("deleteFile", n, "ok")
            /\ UNCHANGED fatal
  /\ UNCHANGED <<dummy_refs, outputs, inputs, lockfiles, deallocs>>
  /\ UNCHANGED nondir

\* ---------------------------------------------------------- fileLength
\* fileLength that answers for a placeholder with the length of the file a
\* writer is building under that name.
FileLength_ReadsWriterFile(n) ==
  /\ Running
  /\ last' = IF n \notin DOMAIN files
               THEN Outcome("fileLength", n, "FileNotFound")
               ELSE OutcomeVal("fileLength", n, "ok",
                               IF files[n] # DummyFile THEN ramfiles[files[n]].length
                               ELSE IF \E f \in FileIds : outputs[f].st = "open" /\ ramfiles[f].name = n
                               THEN LET f == CHOOSE f \in FileIds :
                                               outputs[f].st = "open" /\ ramfiles[f].name = n
                                    IN ramfiles[f].length
                               ELSE 0)
  /\ UNCHANGED <<files, ramfiles, dummy_refs, outputs, inputs, lockfiles, todelete,
                 deallocs, fatal>>
  /\ UNCHANGED nondir

\* it->second->length; a placeholder entry points at dummy_file, length 0.
FileLength(n) ==
  /\ Running
  /\ last' = IF n \notin DOMAIN files
               THEN Outcome("fileLength", n, "FileNotFound")
               ELSE OutcomeVal("fileLength", n, "ok",
                               IF files[n] = DummyFile THEN 0
                               ELSE ramfiles[files[n]].length)
  /\ UNCHANGED <<files, ramfiles, dummy_refs, outputs, inputs, lockfiles, todelete,
                 deallocs, fatal>>
  /\ UNCHANGED nondir

\* -------------------------------------------------------------- rename
\* rename that does not look at the target.
Rename_OverwritesTarget(src, target) ==
  /\ Running
  /\ IF src \notin DOMAIN files
       THEN /\ last' = OutcomeVal("rename", src, "FileNotFound", target)
            /\ UNCHANGED files
       ELSE /\ files' = Erase(Put(files, target, files[src]), src)
            /\ last' = OutcomeVal("rename", src, "ok", target)
  /\ UNCHANGED <<ramfiles, dummy_refs, outputs, inputs, lockfiles, todelete, deallocs,
                 fatal>>
  /\ UNCHANGED nondir

\* rename that installs the file anew, as commit does (refs_ = 1).
Rename_Recommits(src, target) ==
  /\ Running
  /\ IF src \notin DOMAIN files
       THEN /\ last' = OutcomeVal("rename", src, "FileNotFound", target)
            /\ UNCHANGED <<files, ramfiles>>
       ELSE IF target \in DOMAIN files
       THEN /\ last' = OutcomeVal("rename", src, "FileAlreadyExists", target)
            /\ UNCHANGED <<files, ramfiles>>
       ELSE /\ files' = Erase(Put(files, target, files[src]), src)
            /\ ramfiles' = IF files[src] = DummyFile THEN ramfiles
                            ELSE [ramfiles EXCEPT ![files[src]].refs_ = 1]
            /\ last' = OutcomeVal("rename", src, "ok", target)
  /\ UNCHANGED <<dummy_refs, outputs, inputs, lockfiles, todelete, deallocs, fatal>>
  /\ UNCHANGED nondir

\* The call is recorded with its target as val.
Rename(src, target) ==
  /\ Running
  /\ IF src \notin DOMAIN files
       THEN /\ last' = OutcomeVal("rename", src, "FileNotFound", target)
            /\ UNCHANGED files
       ELSE IF target \in DOMAIN files
       THEN /\ last' = OutcomeVal("rename", src, "FileAlreadyExists", target)
            /\ UNCHANGED files
       ELSE /\ files' = Erase(Put(files, target, files[src]), src)
            /\ last' = OutcomeVal("rename", src, "ok", target)
  /\ UNCHANGED <<ramfiles, dummy_refs, outputs, inputs, lockfiles, todelete, deallocs,
                 fatal>>
  /\ UNCHANGED nondir

\* ---------------------------------------------------------- obtainLock
\* obtainLock without the look-up of the name.
ObtainLock_NoCheck(n) ==
  /\ Running
  /\ FreshIds(lockfiles) # {}
  /\ lockfiles' = [lockfiles EXCEPT ![Fresh(lockfiles)] = [st |-> "held", name |-> n]]
  /\ files' = Put(files, n, DummyFile)
  /\ last' = Outcome("obtainLock", n, "ok")
  /\ UNCHANGED <<ramfiles, dummy_refs, outputs, inputs, todelete, deallocs, fatal>>
  /\ UNCHANGED nondir

ObtainLock(n) ==
  /\ Running
  /\ IF n \in DOMAIN files
       THEN /\ last' = Outcome("obtainLock", n, "null")
            /\ UNCHANGED <<files, lockfiles>>
       ELSE /\ FreshIds(lockfiles) # {}
            /\ lockfiles' = [lockfiles EXCEPT ![Fresh(lockfiles)] = [st |-> "held", name |-> n]]
            /\ files' = Put(files, n, DummyFile)
            /\ last' = Outcome("obtainLock", n, "ok")
  /\ UNCHANGED <<ramfiles, dummy_refs, outputs, inputs, todelete, deallocs, fatal>>
  /\ UNCHANGED nondir

\* ~RAMDirectoryLockFile: parent->releaseLock(name).
ReleaseLock(l) ==
  /\ Running
  /\ lockfiles[l].st = "held"
  /\ lockfiles' = [lockfiles EXCEPT ![l] = NoLock]
  /\ LET fname == lockfiles[l].name IN
       IF fname \notin DOMAIN files
         THEN /\ last' = Outcome("releaseLock", fname, "warning")
              /\ UNCHANGED <<files, fatal>>
         ELSE IF files[fname] # DummyFile
         THEN /\ fatal' = "assert"
              /\ last' = Outcome("releaseLock", fname, "fatal")
              /\ UNCHANGED files
         ELSE /\ files' = Erase(files, fname)
              /\ last' = Outcome("releaseLock", fname, "ok")
              /\ UNCHANGED fatal
  /\ UNCHANGED <<ramfiles, dummy_refs, outputs, inputs, todelete, deallocs>>
  /\ UNCHANGED nondir

\* ------------------------------------------------------- deleteSegment
\* The range-for over files visits the matching entries in the map's own
\* order.  A matching entry must be the placeholder (the assertion); it is
\* erased inside the loop and dummy_file.refs_ is decremented.  The erase
\* leaves the loop's iterator dangling, so what the loop does next is
\* undefined: it may go on to another entry, end, or crash.
RECURSIVE SegmentOutcomes(_, _, _)
SegmentOutcomes(tbl, refs, left) ==
  IF left = {}
    THEN {[files |-> tbl, dummy_refs |-> refs, fatal |-> "none"]}
    ELSE UNION {
           IF tbl[n] # DummyFile
             THEN {[files |-> tbl, dummy_refs |-> refs, fatal |-> "assert"]}
             ELSE {[files |-> Erase(tbl, n), dummy_refs |-> refs - 1, fatal |-> "ub"],
                   [files |-> Erase(tbl, n), dummy_refs |-> refs - 1, fatal |-> "none"]}
                  \cup SegmentOutcomes(Erase(tbl, n), refs - 1, left \ {n})
           : n \in left}

DeleteSegment(segment) ==
  /\ Running
  /\ \E o \in SegmentOutcomes(files, dummy_refs,
                              {n \in DOMAIN files : StartsWith(n, segment)}) :
       /\ o.dummy_refs >= -MaxUnrefs
       /\ files' = o.files
       /\ dummy_refs' = o.dummy_refs
       /\ fatal' = o.fatal
       /\ last' = Outcome("deleteSegment", segment,
                          IF o.fatal = "none" THEN "ok" ELSE "fatal")
  /\ UNCHANGED <<ramfiles, outputs, inputs, lockfiles, todelete, deallocs>>
  /\ UNCHANGED nondir

\* ------------------------------------------------ listAll, fileExists
\* listAll that leaves out the entries that hold no file yet.
ListAll_CommittedOnly ==
  /\ Running
  /\ last' = OutcomeVal("listAll", <<>>, "ok", {n \in DOMAIN files : files[n] # DummyFile})
  /\ UNCHANGED <<files, ramfiles, dummy_refs, outputs, inputs, lockfiles, todelete,
                 deallocs, fatal>>
  /\ UNCHANGED nondir

\* The loop pushes f.first of every entry; the vector's order is the map's
\* own, so the result is recorded as the set of its elements.
ListAll ==
  /\ Running
  /\ last' = OutcomeVal("listAll", <<>>, "ok", {n \in DOMAIN files : TRUE})
  /\ UNCHANGED <<files, ramfiles, dummy_refs, outputs, inputs, lockfiles, todelete,
                 deallocs, fatal>>
  /\ UNCHANGED nondir

FileExists(n) ==
  /\ Running
  /\ last' = Outcome("fileExists", n, IF n \in DOMAIN files THEN "true" ELSE "false")
  /\ UNCHANGED <<files, ramfiles, dummy_refs, outputs, inputs, lockfiles, todelete,
                 deallocs, fatal>>
  /\ UNCHANGED nondir

\* ------------------------------------------------------- ~RAMDirectory
\* REQUIRES: no one is holding a file for reading or writing.  The whole body
\* runs under lock_guard(mu_): every entry that is not the placeholder must
\* have refs_ == 1; its refs_ is taken to 0 and the RAMFile is deleted there,
\* in the loop.  The loop visits the entries in the map's own order, so a
\* failed assertion may come after any of the other files were deleted.  After
\* the body the members, the table among them, are destroyed.
Teardown ==
  /\ Running
  /\ \A r \in ReaderIds : inputs[r].st # "open"
  /\ \A f \in FileIds : outputs[f].st # "open"
  /\ LET live == {files[n] : n \in DOMAIN files} \ {DummyFile}
         bad == {f \in live : ramfiles[f].refs_ # 1}
     IN \E done \in SUBSET (live \ bad) :
          /\ bad = {} => done = live
          /\ ramfiles' = [f \in FileIds |->
                            IF f \in done THEN [NoFile EXCEPT !.st = "freed"] ELSE ramfiles[f]]
          /\ deallocs' = [f \in FileIds |-> IF f \in done THEN deallocs[f] + 1 ELSE deallocs[f]]
          /\ IF bad = {}
               THEN /\ files' = [n \in {} |-> DummyFile]
                    /\ last' = Outcome("~RAMDirectory", <<>>, "ok")
                    /\ UNCHANGED fatal
               ELSE /\ fatal' = "assert"
                    /\ last' = Outcome("~RAMDirectory", <<>>, "fatal")
                    /\ UNCHANGED files
  /\ UNCHANGED <<dummy_refs, outputs, inputs, lockfiles, todelete>>
  /\ UNCHANGED nondir

\* ------------------------------------------------------- specification
Next ==
  \/ \E n \in Names : CreateOutput(n)
  \/ \E f \in FileIds, c \in Bytes : WriteByte(f, c)
  \/ \E f \in FileIds : Flush(f)
  \/ \E f \in FileIds : CloseOutput(f)
  \/ \E n \in Names : OpenInput(n)
  \/ \E r \in ReaderIds : ReadByte(r)
  \/ \E r \in ReaderIds : CloseInput(r)
  \/ \E f \in FileIds : DeleteRAMFile(f)
  \/ \E n \in Names : DeleteFile(n)
  \/ \E n \in Names : FileLength(n)
  \/ \E s \in Names, t \in Names : Rename(s, t)
  \/ \E n \in Names : ObtainLock(n)
  \/ \E l \in LockIds : ReleaseLock(l)
  \/ \E p \in Prefixes : DeleteSegment(p)
  \/ ListAll
  \/ \E n \in Names : FileExists(n)
  \/ Teardown

Init == DirInit /\ codec = CodecIdle /\ stream = StreamIdle /\ tokenizer = TokenizerIdle

Spec == Init /\ [][Next]_vars

\* ================================================================ codec
\* The integer codec of IndexOutput.cpp / IndexInput.cpp.  An unsigned integer
\* of width w is the sequence of its w bits, least significant first, so that
\* 32- and 64-bit values keep their width; a byte is a number in 0..255.
Width32 == 32
Width64 == 64
kMaxVarintLength32 == 5
kMaxVarintLength64 == 10

Bit(n, j) == IF j <= 31 THEN (n \div 2^(j - 1)) % 2 ELSE 0
\* the w-bit value of a number below 2^31
Bits(n, w) == [i \in 1..w |-> Bit(n, i)]
\* 2^k and 2^k - 1 as w-bit values
Pow2(k, w) == [i \in 1..w |-> IF i = k + 1 THEN 1 ELSE 0]
Ones(k, w) == [i \in 1..w |-> IF i <= k THEN 1 ELSE 0]

\* num >> k
Shr(x, k) == [i \in 1..Len(x) |-> IF i + k <= Len(x) THEN x[i + k] ELSE 0]
\* static_cast<uint8_t>(num), also the conversion of an assignment to a byte
ToUint8(x) ==
  x[1] + 2 * x[2] + 4 * x[3] + 8 * x[4] + 16 * x[5] + 32 * x[6] + 64 * x[7] + 128 * x[8]
\* num < (1 << k)
Below(x, k) == \A i \in (k + 1)..Len(x) : x[i] = 0
\* byte | B, with B = 128
OrB(b) == IF b >= 128 THEN b ELSE b + 128
\* ret | (v << sh), for a value v of `bits` bits, in the width of ret
OrShl(ret, v, bits, sh) ==
  [i \in 1..Len(ret) |->
     IF i > sh /\ i - sh <= bits /\ Bit(v, i - sh) = 1 THEN 1 ELSE ret[i]]

\* IndexOutput::writeInt32 / writeInt64: buf[i] = static_cast<char>(num >> 8 i)
WriteFixed(num) == [i \in 1..(Len(num) \div 8) |-> ToUint8(Shr(num, 8 * (i - 1)))]

WriteVarint32(num) ==
  IF Below(num, 7) THEN
    <<ToUint8(num)>>
  ELSE IF Below(num, 14) THEN
    <<OrB(ToUint8(num)), ToUint8(Shr(num, 7))>>
  ELSE IF Below(num, 21) THEN
    <<OrB(ToUint8(num)), OrB(ToUint8(Shr(num, 7))), ToUint8(Shr(num, 14))>>
  ELSE IF Below(num, 28) THEN
    <<OrB(ToUint8(Shr(num, 7))), OrB(ToUint8(Shr(num, 14))), ToUint8(Shr(num, 21))>>
  ELSE
    <<OrB(ToUint8(num)), OrB(ToUint8(Shr(num, 7))), OrB(ToUint8(Shr(num, 14))),
      OrB(ToUint8(Shr(num, 21))), ToUint8(Shr(num, 28))>>

\* while (num >= B) { *(ptr++) = num | B; num >>= 7; } *(ptr++) = num;
RECURSIVE WriteVarint64(_)
WriteVarint64(num) ==
  IF ~Below(num, 7)
    THEN <<OrB(ToUint8(num))>> \o WriteVarint64(Shr(num, 7))
    ELSE <<ToUint8(num)>>

Decoded(v) == [out |-> v, err |-> "none"]
Corrupt == [out |-> <<>>, err |-> "IndexCorruption"]

\* IndexInput::readInt32 / readInt64 on a stream holding `bytes`: read() copies
\* what there is, fewer bytes than the width is IndexCorruption.
RECURSIVE OrBytes(_, _, _)
OrBytes(ret, bytes, i) ==
  IF i > Len(ret) \div 8 THEN ret
  ELSE OrBytes(OrShl(ret, bytes[i], 8, 8 * (i - 1)), bytes, i + 1)

ReadFixed(bytes, w) ==
  IF Len(bytes) < w \div 8 THEN Corrupt
  ELSE Decoded(OrBytes(Bits(0, w), bytes, 1))

\* IndexInput::readVarint32 / readVarint64 on a stream holding `bytes`: the
\* loop runs while bytes_decoded < max and !eof().
RECURSIVE ReadVarintLoop(_, _, _, _)
ReadVarintLoop(bytes, ret, decoded, max) ==
  IF decoded < max /\ decoded < Len(bytes)
    THEN LET byte == bytes[decoded + 1]
             r == OrShl(ret, byte % 128, 7, 7 * decoded)
         IN IF byte < 128 THEN Decoded(r)
            ELSE ReadVarintLoop(bytes, r, decoded + 1, max)
    ELSE Corrupt

ReadVarint32(bytes) == ReadVarintLoop(bytes, Bits(0, Width32), 0, kMaxVarintLength32)
ReadVarint64(bytes) == ReadVarintLoop(bytes, Bits(0, Width64), 0, kMaxVarintLength64)

\* A string is written as its size and then its bytes.  The codec run keeps
\* the size (num) and the size prefix (bytes); the payload is the bytes
\* s[0], ..., s[size - 1] of the string, and readString returns the first
\* `out` bytes that follow the prefix, `out` being the size it decoded.
CodecKinds == {"Int32", "Int64", "Varint32", "Varint64", "String"}
WidthOf(kind) == IF kind \in {"Int32", "Varint32", "String"} THEN Width32 ELSE Width64
\* The values to encode: every 2^k and 2^k - 1 of the width (0, 127, 128,
\* 2^14 - 1, ..., 2^32 - 1, 2^64 - 1 among them) and the values of the
\* repository's test.
CodecValues(w) ==
  {Ones(k, w) : k \in 0..w} \cup {Pow2(k, w) : k \in 0..(w - 1)}
    \cup {Bits(300, w), Bits(1928936378, w)}

CodecInit ==
  /\ DirInit
  /\ stream = StreamIdle
  /\ tokenizer = TokenizerIdle
  /\ codec \in {[CodecIdle EXCEPT !.pc = "start", !.kind = k, !.num = v] :
                    k \in CodecKinds,
                    v \in CodecValues(Width32) \cup CodecValues(Width64)}
  \* a value is encoded by the functions of its own width
  /\ Len(codec.num) = WidthOf(codec.kind)

\* The write call of the chosen kind.
Encode ==
  /\ codec.pc = "start"
  /\ codec' = [codec EXCEPT
       !.pc = "written",
       !.bytes = CASE codec.kind = "Int32" -> WriteFixed(codec.num)
                   [] codec.kind = "Int64" -> WriteFixed(codec.num)
                   [] codec.kind = "Varint32" -> WriteVarint32(codec.num)
                   [] codec.kind = "Varint64" -> WriteVarint64(codec.num)
                   [] codec.kind = "String" -> WriteVarint32(codec.num)]
  /\ UNCHANGED <<dirvars, mu_, threads, stream, tokenizer>>

\* The matching read call on a reader of exactly the written bytes.
Decode ==
  /\ codec.pc = "written"
  /\ LET r == CASE codec.kind = "Int32" -> ReadFixed(codec.bytes, Width32)
                [] codec.kind = "Int64" -> ReadFixed(codec.bytes, Width64)
                [] codec.kind = "Varint32" -> ReadVarint32(codec.bytes)
                [] codec.kind = "Varint64" -> ReadVarint64(codec.bytes)
                [] codec.kind = "String" -> ReadVarint32(codec.bytes)
     IN codec' = [codec EXCEPT !.pc = "read", !.out = r.out, !.err = r.err]
  /\ UNCHANGED <<dirvars, mu_, threads, stream, tokenizer>>

CodecNext == Encode \/ Decode

SpecCodec == CodecInit /\ [][CodecNext]_vars

\* =============================================================== streams
\* One in-memory file, from the first write of its RAMFileIndexOutput to the
\* reads of a RAMFileIndexInput opened on the committed file.  Blocks have
\* kBlockSize cells (the repository's test was run with kBlockSize = 1, 2 and
\* 4096); a cell that was allocated and never written holds Junk, and reads as
\* an arbitrary byte.
kBlockSize == 2
\* the reader seeks of one run, and the largest seek position
MaxSeeks == 1
MaxSeekPos == 3
\* the largest size of a read(ptr, size)
MaxRead == 3
Junk == -1
\* Bytes with and without the varint continuation bit.
StreamBytes == {1, 2, 129}
\* What a cell that was never written may read as.
JunkValues == {1, 129}
Run(b, k) == [i \in 1..k |-> b]
\* What the writer is asked to write, byte by byte.
StreamScripts ==
  {<<>>}
    \cup UNION {[1..k -> StreamBytes] : k \in 1..3}
    \cup {Run(129, 4) \o <<1>>, Run(129, kMaxVarintLength32),
          Run(129, kMaxVarintLength32) \o <<1>>,
          Run(129, kMaxVarintLength64), Run(129, kMaxVarintLength64) \o <<1>>}

JunkBlock == [i \in 1..kBlockSize |-> Junk]
\* RAMFile::alloc
Alloc(file) == [file EXCEPT !.blocks_ = Append(@, JunkBlock)]
Max(a, b) == IF a >= b THEN a ELSE b
Min(a, b) == IF a <= b THEN a ELSE b

\* A writer step works on s = [file, out, fatal].
\* IndexOutput::available
Available(out) == out.bufEnd - out.bufCur

\* RAMFileIndexOutput::initInternalBuffer
InitInternalBufferOut(s) ==
  [s EXCEPT !.file = Alloc(s.file),
            !.out = [s.out EXCEPT !.hasBuffer = TRUE, !.bufStart = 0, !.bufCur = 0,
                                  !.bufEnd = kBlockSize]]

\* writeImpl that allocates a block whenever it leaves a full one.
WriteImpl_AlwaysAllocates(s) ==
  LET f == [s.file EXCEPT !.length = Max(@, s.out.pos)] IN
    IF s.out.bufCur = s.out.bufEnd
      THEN [s EXCEPT
              !.file = Alloc(f),
              !.out = [s.out EXCEPT !.current_block = @ + 1, !.bufStart = 0,
                                    !.bufEnd = kBlockSize]]
      ELSE [s EXCEPT !.file = f, !.out = [s.out EXCEPT !.bufStart = s.out.bufCur]]

\* RAMFileIndexOutput::writeImpl
WriteImpl(s) ==
  LET f == [s.file EXCEPT !.length = Max(@, s.out.pos)] IN
    IF s.out.bufCur = s.out.bufEnd
      THEN [s EXCEPT
              !.file = IF s.out.current_block = Len(f.blocks_) - 1 THEN Alloc(f) ELSE f,
              !.out = [s.out EXCEPT !.current_block = @ + 1, !.bufStart = 0,
                                    !.bufEnd = kBlockSize]]
      ELSE [s EXCEPT !.file = f, !.out = [s.out EXCEPT !.bufStart = s.out.bufCur]]

\* IndexOutput::flushNonEmpty
FlushNonEmpty(s) ==
  IF s.out.bufCur - s.out.bufStart = 0
    THEN [s EXCEPT !.fatal = "assert"]
    ELSE LET t == WriteImpl(s)
         IN [t EXCEPT !.out = [t.out EXCEPT !.bufCur = t.out.bufStart]]

\* IndexOutput::writeByte
StoreByte(s, c) ==
  [s EXCEPT !.file = [s.file EXCEPT
                        !.blocks_[s.out.current_block + 1][s.out.bufCur + 1] = c],
            !.out = [s.out EXCEPT !.pos = @ + 1, !.bufCur = @ + 1]]

WriteByteOut(s, c) ==
  IF Available(s.out) # 0 THEN StoreByte(s, c)
  ELSE IF ~s.out.hasBuffer THEN StoreByte(InitInternalBufferOut(s), c)
  ELSE LET t == FlushNonEmpty(s)
       IN IF t.fatal # "none" THEN t ELSE StoreByte(t, c)

\* IndexOutput::copyToBuffer
CopyToBuffer(s, bytes) ==
  IF Len(bytes) > Available(s.out) THEN [s EXCEPT !.fatal = "assert"]
  ELSE [s EXCEPT
          !.file = [s.file EXCEPT
                      !.blocks_[s.out.current_block + 1] =
                         [i \in 1..kBlockSize |->
                            IF i > s.out.bufCur /\ i <= s.out.bufCur + Len(bytes)
                              THEN bytes[i - s.out.bufCur] ELSE @[i]]],
          !.out = [s.out EXCEPT !.bufCur = @ + Len(bytes)]]

\* write that stores what fits in the current block and drops the remainder.
WriteOut_DropsRemainder(s, bytes) ==
  LET t == IF s.out.hasBuffer THEN s ELSE InitInternalBufferOut(s)
      k == Min(Available(t.out), Len(bytes))
      u == CopyToBuffer(t, SubSeq(bytes, 1, k))
  IN [u EXCEPT !.out = [u.out EXCEPT !.pos = @ + Len(bytes)]]

\* IndexOutput::write
RECURSIVE WriteOut(_, _)
WriteOut(s, bytes) ==
  LET advance(t, k) == [t EXCEPT !.out = [t.out EXCEPT !.pos = @ + k]] IN
  IF Available(s.out) < Len(bytes)
    THEN IF ~s.out.hasBuffer THEN WriteOut(InitInternalBufferOut(s), bytes)
         ELSE LET avail == Available(s.out)
                  t == advance(CopyToBuffer(s, SubSeq(bytes, 1, avail)), avail)
                  u == FlushNonEmpty(t)
              IN IF u.fatal # "none" THEN u
                 ELSE WriteOut(u, SubSeq(bytes, avail + 1, Len(bytes)))
    ELSE LET t == CopyToBuffer(s, bytes)
         IN IF t.fatal # "none" THEN t ELSE advance(t, Len(bytes))

\* IndexOutput::flush
FlushOut(s) == IF s.out.bufCur # s.out.bufStart THEN FlushNonEmpty(s) ELSE s

\* ~RAMFileIndexOutput: the last "flush" of the length; commit makes the file
\* readable.
CloseOut(s) == [s EXCEPT !.file = [s.file EXCEPT !.length = Max(@, s.out.pos)]]

\* RAMFileIndexOutput::seek without the "flush" of the length.
SeekOut_KeepsLength(s, seek_pos) ==
  IF seek_pos > s.file.length THEN [s EXCEPT !.fatal = "assert"]
  ELSE LET cb == seek_pos \div kBlockSize IN
    [s EXCEPT !.file = IF cb = Len(s.file.blocks_) THEN Alloc(s.file) ELSE s.file,
              !.out = [s.out EXCEPT !.hasBuffer = TRUE, !.current_block = cb,
                                    !.bufStart = 0, !.bufEnd = kBlockSize,
                                    !.bufCur = seek_pos % kBlockSize, !.pos = seek_pos]]

\* RAMFileIndexOutput::seek
SeekOut(s, seek_pos) ==
  LET f == [s.file EXCEPT !.length = Max(@, s.out.pos)] IN
  IF seek_pos > f.length THEN [s EXCEPT !.file = f, !.fatal = "assert"]
  ELSE LET cb == seek_pos \div kBlockSize IN
    [s EXCEPT !.file = IF cb = Len(f.blocks_) THEN Alloc(f) ELSE f,
              !.out = [s.out EXCEPT !.hasBuffer = TRUE, !.current_block = cb,
                                    !.bufStart = 0, !.bufEnd = kBlockSize,
                                    !.bufCur = seek_pos % kBlockSize, !.pos = seek_pos]]

\* ------------------------------------------------------------- the reader
\* A reader step yields a set of outcomes, one for each thing the step can
\* do: a read of a Junk cell has one outcome per byte, and blocks_[i] with i
\* past the end of the vector is undefined, so it either crashes or hands out
\* memory that is no block of the file (it reads as Junk).

\* RAMFileIndexInput::RAMFileIndexInput, after its assertion
OpenIn(file) ==
  [NoReader EXCEPT !.last_block = ((file.length - 1) \div kBlockSize) + 1,
                   !.last_block_bytes = ((file.length - 1) % kBlockSize) + 1]

\* IndexInput::getNumReadableBytes, hasPendingData
NumReadable(r) == r.sentinel - r.bufCur
HasPendingData(r) == NumReadable(r) # 0

\* set(file->blocks_[cb], kBlockSize); bufCur = bufStart + offset; the sentinel
\* as initInternalBuffer, fillImpl and seek place it
SetBlock(r, cb, offset, short) ==
  [r EXCEPT !.hasBuffer = TRUE, !.current_block = cb, !.bufStart = 0,
            !.bufEnd = kBlockSize, !.bufCur = offset,
            !.sentinel = IF short THEN r.last_block_bytes ELSE kBlockSize]

Filled(r, ok, ftl) == [in |-> r, ok |-> ok, fatal |-> ftl]

\* RAMFileIndexInput::fillImpl (and initInternalBuffer)
FillImpl(file, r) ==
  IF HasPendingData(r) THEN {Filled(r, FALSE, "assert")}
  ELSE IF ~r.hasBuffer THEN {Filled(SetBlock(r, 0, 0, r.last_block = 0), TRUE, "none")}
  ELSE IF r.current_block = r.last_block THEN {Filled(r, FALSE, "none")}
  ELSE LET cb == r.current_block + 1
           next == Filled(SetBlock(r, cb, 0, cb = r.last_block), TRUE, "none")
       IN IF cb < Len(file.blocks_) THEN {next} ELSE {next, Filled(r, FALSE, "ub")}

\* IndexInput::eof
EofIn(file, r) ==
  IF HasPendingData(r) THEN {[in |-> r, eof |-> FALSE, fatal |-> "none"]}
  ELSE {[in |-> o.in, eof |-> ~o.ok, fatal |-> o.fatal] : o \in FillImpl(file, r)}

\* *bufCur
CellValues(file, r) ==
  LET cell == IF r.current_block < Len(file.blocks_)
                THEN file.blocks_[r.current_block + 1][r.bufCur + 1]
                ELSE Junk
  IN IF cell = Junk THEN JunkValues ELSE {cell}

ByteRead(r, b, err, ftl) == [in |-> r, byte |-> b, err |-> err, fatal |-> ftl]

\* IndexInput::readByte
ReadByteIn(file, r) ==
  UNION {IF e.fatal # "none" THEN {ByteRead(e.in, 0, "none", e.fatal)}
         ELSE IF e.eof THEN {ByteRead(e.in, 0, "IndexCorruption", "none")}
         ELSE {ByteRead([e.in EXCEPT !.pos = @ + 1, !.bufCur = @ + 1], b, "none", "none") :
                 b \in CellValues(file, e.in)}
         : e \in EofIn(file, r)}

BytesRead(r, bytes, err, ftl) == [in |-> r, bytes |-> bytes, err |-> err, fatal |-> ftl]

\* std::memcpy(ptr + bytes_copied, bufCur, k); bufCur += k
RECURSIVE CopyCells(_, _, _, _)
CopyCells(file, r, k, copied) ==
  IF k = 0 THEN {BytesRead(r, copied, "none", "none")}
  ELSE UNION {CopyCells(file, [r EXCEPT !.bufCur = @ + 1], k - 1, Append(copied, b)) :
                b \in CellValues(file, r)}

\* IndexInput::read
RECURSIVE ReadLoop(_, _, _, _)
ReadLoop(file, r, size, copied) ==
  LET done(q) == BytesRead([q EXCEPT !.pos = @ + Len(copied)], copied, "none", "none") IN
  IF Len(copied) < size
    THEN UNION {IF e.fatal # "none" THEN {BytesRead(e.in, copied, "none", e.fatal)}
                ELSE IF e.eof THEN {done(e.in)}
                ELSE UNION {ReadLoop(file, c.in, size, c.bytes) :
                              c \in CopyCells(file, e.in,
                                              Min(NumReadable(e.in), size - Len(copied)),
                                              copied)}
                : e \in EofIn(file, r)}
    ELSE {done(r)}

ReadIn(file, r, size) == ReadLoop(file, r, size, <<>>)

ValueRead(r, val, bytes, err, ftl) ==
  [in |-> r, val |-> val, bytes |-> bytes, err |-> err, fatal |-> ftl]

\* IndexInput::readInt32 / readInt64, for the width w
ReadFixedIn(file, r, w) ==
  {IF o.fatal # "none" THEN ValueRead(o.in, <<>>, o.bytes, "none", o.fatal)
   ELSE IF Len(o.bytes) < w \div 8
     THEN ValueRead(o.in, <<>>, o.bytes, "IndexCorruption", "none")
   ELSE ValueRead(o.in, OrBytes(Bits(0, w), o.bytes, 1), o.bytes, "none", "none")
   : o \in ReadIn(file, r, w \div 8)}

\* readVarint that hands out what it decoded when the limit is reached.
RECURSIVE ReadVarintIn_ReturnsAtLimit(_, _, _, _, _)
ReadVarintIn_ReturnsAtLimit(file, r, ret, got, max) ==
  IF Len(got) < max
    THEN UNION {IF e.fatal # "none" THEN {ValueRead(e.in, <<>>, got, "none", e.fatal)}
                ELSE IF e.eof THEN {ValueRead(e.in, <<>>, got, "IndexCorruption", "none")}
                ELSE UNION {
                  LET q == [e.in EXCEPT !.pos = @ + 1, !.bufCur = @ + 1]
                      v == OrShl(ret, b % 128, 7, 7 * Len(got))
                  IN IF b < 128 THEN {ValueRead(q, v, Append(got, b), "none", "none")}
                     ELSE ReadVarintIn_ReturnsAtLimit(file, q, v, Append(got, b), max)
                  : b \in CellValues(file, e.in)}
                : e \in EofIn(file, r)}
    ELSE {ValueRead(r, ret, got, "none", "none")}

\* IndexInput::readVarint32 / readVarint64: the loop, with eof() and readByte()
\* of the reader
RECURSIVE ReadVarintIn(_, _, _, _, _)
ReadVarintIn(file, r, ret, got, max) ==
  IF Len(got) < max
    THEN UNION {IF e.fatal # "none" THEN {ValueRead(e.in, <<>>, got, "none", e.fatal)}
                ELSE IF e.eof THEN {ValueRead(e.in, <<>>, got, "IndexCorruption", "none")}
                ELSE UNION {
                  LET q == [e.in EXCEPT !.pos = @ + 1, !.bufCur = @ + 1]
                      v == OrShl(ret, b % 128, 7, 7 * Len(got))
                  IN IF b < 128 THEN {ValueRead(q, v, Append(got, b), "none", "none")}
                     ELSE ReadVarintIn(file, q, v, Append(got, b), max)
                  : b \in CellValues(file, e.in)}
                : e \in EofIn(file, r)}
    ELSE {ValueRead(r, <<>>, got, "IndexCorruption", "none")}

\* A uint32_t as a number; 2^31 and more count as 2^31 - 1, more bytes than
\* any file of the model holds.
RECURSIVE ToNat(_, _)
ToNat(x, i) ==
  IF i > Len(x) THEN 0
  ELSE (IF x[i] = 1 THEN 2^(i - 1) ELSE 0) + ToNat(x, i + 1)
SizeOf(x) == IF x[Width32] = 1 THEN 2147483647 ELSE ToNat(SubSeq(x, 1, Width32 - 1), 1)

\* while (size--) buff.push_back(readByte());
RECURSIVE ReadBytesIn(_, _, _, _)
ReadBytesIn(file, r, size, buff) ==
  IF size = 0 THEN {BytesRead(r, buff, "none", "none")}
  ELSE UNION {IF o.fatal # "none" \/ o.err # "none"
                THEN {BytesRead(o.in, buff, o.err, o.fatal)}
                ELSE ReadBytesIn(file, o.in, size - 1, Append(buff, o.byte))
              : o \in ReadByteIn(file, r)}

\* IndexInput::readString: buff.clear(), the size, the bytes
ReadStringIn(file, r) ==
  UNION {IF v.fatal # "none" \/ v.err # "none"
           THEN {ValueRead(v.in, <<>>, <<>>, v.err, v.fatal)}
           ELSE {ValueRead(o.in, v.val, o.bytes, o.err, o.fatal) :
                   o \in ReadBytesIn(file, v.in, SizeOf(v.val), <<>>)}
         : v \in ReadVarintIn(file, r, Bits(0, Width32), <<>>, kMaxVarintLength32)}

\* seek that puts the cursor at bufStart + seek_pos.
SeekIn_AbsoluteCursor(r, p) ==
  LET cb == p \div kBlockSize
  IN [SetBlock(r, cb, p, cb = r.last_block) EXCEPT !.seeks = @ + 1]

\* RAMFileIndexInput::seek, after its assertion
SeekIn(r, p) ==
  LET cb == p \div kBlockSize
  IN [SetBlock(r, cb, p % kBlockSize, cb = r.last_block) EXCEPT !.seeks = @ + 1]

\* The file offset of the byte at bufCur.
Offset(r) == IF r.hasBuffer THEN r.current_block * kBlockSize + r.bufCur ELSE 0

WriterView == [file |-> stream.file, out |-> stream.out, fatal |-> stream.fatal]
StreamRunning == stream.fatal = "none"

StreamInit ==
  /\ DirInit
  /\ codec = CodecIdle
  /\ stream \in {[StreamIdle EXCEPT !.pc = "write", !.script = sc] : sc \in StreamScripts}
  /\ tokenizer = TokenizerIdle

\* The writer writes the next byte of the script.
RAMOut_WriteByte ==
  /\ StreamRunning
  /\ stream.pc = "write"
  /\ Len(stream.written) < Len(stream.script)
  /\ LET c == stream.script[Len(stream.written) + 1]
         t == WriteByteOut(WriterView, c)
     IN stream' = [stream EXCEPT
          !.file = t.file, !.out = t.out, !.fatal = t.fatal,
          !.written = IF t.fatal = "none" THEN Append(@, c) ELSE @,
          !.res = [NoResult EXCEPT !.op = "writeByte", !.arg = c, !.at = stream.out.pos]]
  /\ UNCHANGED <<dirvars, mu_, threads, codec, tokenizer>>

\* The writer is flushed.
RAMOut_Flush ==
  /\ StreamRunning
  /\ stream.pc = "write"
  /\ LET t == FlushOut(WriterView)
     IN stream' = [stream EXCEPT
          !.file = t.file, !.out = t.out, !.fatal = t.fatal,
          !.res = [NoResult EXCEPT !.op = "flush", !.at = stream.out.pos]]
  /\ UNCHANGED <<dirvars, mu_, threads, codec, tokenizer>>

\* The writer is destroyed after the whole script was written.
RAMOut_Close ==
  /\ StreamRunning
  /\ stream.pc = "write"
  /\ Len(stream.written) = Len(stream.script)
  /\ LET t == CloseOut(WriterView)
     IN stream' = [stream EXCEPT
          !.pc = "committed", !.file = t.file, !.out = NoWriter,
          !.res = [NoResult EXCEPT !.op = "close", !.at = stream.out.pos]]
  /\ UNCHANGED <<dirvars, mu_, threads, codec, tokenizer>>

\* openInput on the committed file: the constructor asserts that the file is
\* not empty.
RAMIn_Open ==
  /\ StreamRunning
  /\ stream.pc = "committed"
  /\ stream' = IF stream.file.length = 0
                 THEN [stream EXCEPT !.fatal = "assert",
                                     !.res = [NoResult EXCEPT !.op = "openInput"]]
                 ELSE [stream EXCEPT !.pc = "read", !.in = OpenIn(stream.file),
                                     !.res = [NoResult EXCEPT !.op = "openInput"]]
  /\ UNCHANGED <<dirvars, mu_, threads, codec, tokenizer>>

Reading == StreamRunning /\ stream.pc = "read"
\* The result of a reader call, with the offset the reader stood at.
Result(op, arg) == [NoResult EXCEPT !.op = op, !.arg = arg, !.at = Offset(stream.in)]

RAMIn_Eof ==
  /\ Reading
  /\ \E o \in EofIn(stream.file, stream.in) :
       stream' = [stream EXCEPT !.in = o.in, !.fatal = o.fatal,
                                !.res = [Result("eof", 0) EXCEPT !.eof = o.eof]]
  /\ UNCHANGED <<dirvars, mu_, threads, codec, tokenizer>>

RAMIn_ReadByte ==
  /\ Reading
  /\ \E o \in ReadByteIn(stream.file, stream.in) :
       stream' = [stream EXCEPT
         !.in = o.in, !.fatal = o.fatal,
         !.res = [Result("readByte", 0) EXCEPT
                    !.err = o.err,
                    !.bytes = IF o.err = "none" /\ o.fatal = "none" THEN <<o.byte>> ELSE <<>>]]
  /\ UNCHANGED <<dirvars, mu_, threads, codec, tokenizer>>

RAMIn_Read(size) ==
  /\ Reading
  /\ \E o \in ReadIn(stream.file, stream.in, size) :
       stream' = [stream EXCEPT
         !.in = o.in, !.fatal = o.fatal,
         !.res = [Result("read", size) EXCEPT !.err = o.err, !.bytes = o.bytes]]
  /\ UNCHANGED <<dirvars, mu_, threads, codec, tokenizer>>

\* readInt32 (w = 32) and readInt64 (w = 64)
RAMIn_ReadInt(w) ==
  /\ Reading
  /\ \E o \in ReadFixedIn(stream.file, stream.in, w) :
       stream' = [stream EXCEPT
         !.in = o.in, !.fatal = o.fatal,
         !.res = [Result("readInt", w) EXCEPT !.err = o.err, !.bytes = o.bytes,
                                               !.val = o.val]]
  /\ UNCHANGED <<dirvars, mu_, threads, codec, tokenizer>>

\* readVarint32 (w = 32) and readVarint64 (w = 64)
RAMIn_ReadVarint(w) ==
  /\ Reading
  /\ \E o \in ReadVarintIn(stream.file, stream.in, Bits(0, w), <<>>,
                            IF w = Width32 THEN kMaxVarintLength32
                            ELSE kMaxVarintLength64) :
       stream' = [stream EXCEPT
         !.in = o.in, !.fatal = o.fatal,
         !.res = [Result("readVarint", w) EXCEPT !.err = o.err, !.bytes = o.bytes,
                                                  !.val = o.val]]
  /\ UNCHANGED <<dirvars, mu_, threads, codec, tokenizer>>

RAMIn_ReadString ==
  /\ Reading
  /\ \E o \in ReadStringIn(stream.file, stream.in) :
       stream' = [stream EXCEPT
         !.in = o.in, !.fatal = o.fatal,
         !.res = [Result("readString", 0) EXCEPT !.err = o.err, !.bytes = o.bytes,
                                                 !.val = o.val]]
  /\ UNCHANGED <<dirvars, mu_, threads, codec, tokenizer>>

\* RAMFileIndexInput::seek asserts seek_pos < file->length.
RAMIn_Seek(p) ==
  /\ Reading
  /\ stream.in.seeks < MaxSeeks
  /\ stream' = IF p < stream.file.length
                 THEN [stream EXCEPT !.in = SeekIn(stream.in, p),
                                     !.res = Result("seek", p)]
                 ELSE [stream EXCEPT !.fatal = "assert", !.res = Result("seek", p)]
  /\ UNCHANGED <<dirvars, mu_, threads, codec, tokenizer>>

StreamNext ==
  \/ RAMOut_WriteByte
  \/ RAMOut_Flush
  \/ RAMOut_Close
  \/ RAMIn_Open
  \/ RAMIn_Eof
  \/ RAMIn_ReadByte
  \/ \E size \in 0..MaxRead : RAMIn_Read(size)
  \/ \E w \in {Width32, Width64} : RAMIn_ReadInt(w)
  \/ \E w \in {Width32, Width64} : RAMIn_ReadVarint(w)
  \/ RAMIn_ReadString
  \/ \E p \in 0..MaxSeekPos : RAMIn_Seek(p)

SpecStream == StreamInit /\ [][StreamNext]_vars

\* ------------------------------------------------------------- the writer
\* One RAMFileIndexOutput under every sequence of writeByte, flush, seek and
\* close.  Here stream.written is what the file should hold, position by
\* position: the last byte written at each position up to the highest position
\* the writer has reached; stream.script is the first byte written at each.
MaxWritten == 4
WriterBytes == {1, 2}
\* the largest size of a write(ptr, size): more than a whole block
MaxWrite == 3
WriteArgs == UNION {[1..k -> WriterBytes] : k \in 0..MaxWrite}

WriterInit ==
  /\ DirInit
  /\ codec = CodecIdle
  /\ stream = [StreamIdle EXCEPT !.pc = "write"]
  /\ tokenizer = TokenizerIdle

Writing == StreamRunning /\ stream.pc = "write"

Writer_WriteByte(c) ==
  /\ Writing
  /\ stream.out.pos < MaxWritten
  /\ LET at == stream.out.pos
         t == WriteByteOut(WriterView, c)
     IN stream' = [stream EXCEPT
          !.file = t.file, !.out = t.out, !.fatal = t.fatal,
          !.written = IF t.fatal # "none" THEN @
                      ELSE IF at < Len(@) THEN [@ EXCEPT ![at + 1] = c] ELSE Append(@, c),
          !.script = IF t.fatal # "none" \/ at < Len(@) THEN @ ELSE Append(@, c),
          !.res = [NoResult EXCEPT !.op = "writeByte", !.arg = c, !.at = at]]
  /\ UNCHANGED <<dirvars, mu_, threads, codec, tokenizer>>

\* seq with bytes laid over it from position at on
Overlay(seq, at, bytes) ==
  [i \in 1..Max(Len(seq), at + Len(bytes)) |->
     IF i > at /\ i <= at + Len(bytes) THEN bytes[i - at] ELSE seq[i]]

\* write(ptr, size) of the bytes at ptr
Writer_Write(bytes) ==
  /\ Writing
  /\ stream.out.pos + Len(bytes) <= MaxWritten
  /\ LET at == stream.out.pos
         t == WriteOut(WriterView, bytes)
     IN stream' = [stream EXCEPT
          !.file = t.file, !.out = t.out, !.fatal = t.fatal,
          !.written = IF t.fatal # "none" THEN @ ELSE Overlay(@, at, bytes),
          !.script = IF t.fatal # "none" THEN @
                     ELSE [i \in 1..Max(Len(@), at + Len(bytes)) |->
                             IF i <= Len(@) THEN @[i] ELSE bytes[i - at]],
          !.res = [NoResult EXCEPT !.op = "write", !.arg = Len(bytes), !.at = at,
                                   !.bytes = bytes]]
  /\ UNCHANGED <<dirvars, mu_, threads, codec, tokenizer>>

Writer_Seek(seek_pos) ==
  /\ Writing
  /\ LET t == SeekOut(WriterView, seek_pos)
     IN stream' = [stream EXCEPT
          !.file = t.file, !.out = t.out, !.fatal = t.fatal,
          !.res = [NoResult EXCEPT !.op = "seek", !.arg = seek_pos, !.at = stream.out.pos]]
  /\ UNCHANGED <<dirvars, mu_, threads, codec, tokenizer>>

\* The writer is destroyed; fileLength of the committed file is file.length.
Writer_Close ==
  /\ Writing
  /\ LET t == CloseOut(WriterView)
     IN stream' = [stream EXCEPT
          !.pc = "committed", !.file = t.file, !.out = NoWriter,
          !.res = [NoResult EXCEPT !.op = "close", !.at = stream.out.pos]]
  /\ UNCHANGED <<dirvars, mu_, threads, codec, tokenizer>>

WriterNext ==
  \/ \E c \in WriterBytes : Writer_WriteByte(c)
  \/ \E bytes \in WriteArgs : Writer_Write(bytes)
  \/ RAMOut_Flush
  \/ \E seek_pos \in 0..MaxWritten : Writer_Seek(seek_pos)
  \/ Writer_Close

SpecWriter == WriterInit /\ [][WriterNext]_vars

\* ------------------------------------------------- the writer, then a reader
\* Every file the writer of SpecWriter can commit, read back by one
\* RAMFileIndexInput under every sequence of eof, readByte, read and seek, the
\* calls that move the reader's buffer window (the other reads are made of them).
ReaderNext ==
  \/ RAMIn_Open
  \/ RAMIn_Eof
  \/ RAMIn_ReadByte
  \/ \E size \in 0..MaxRead : RAMIn_Read(size)
  \/ \E p \in 0..MaxSeekPos : RAMIn_Seek(p)

SpecFile == WriterInit /\ [][WriterNext \/ ReaderNext]_vars

\* ============================================================ tokenizer
\* CharTokenizer<Predicate, Normalizer> over a std::istream.  A character is
\* its code; the text has up to MaxText characters.
MaxText == 3
\* 'a', 'B', ' ' and '1'
Chars == {97, 66, 32, 49}
\* What std::istream::get() returns when no character is left, as a char.
EofChar == -1
Predicates == {"isalpha_predicate", "iswhitespace_predicate"}
Normalizers == {"noop_normalizer", "tolower_normalizer", "toupper_normalizer"}

\* std::isalpha, std::tolower, std::toupper in the "C" locale; each takes EOF
\* as an argument, isalpha(EOF) is 0 and tolower(EOF), toupper(EOF) are EOF.
IsAlpha(c) == c \in (65..90) \cup (97..122)
ToLower(c) == IF c \in 65..90 THEN c + 32 ELSE c
ToUpper(c) == IF c \in 97..122 THEN c - 32 ELSE c

\* isalpha_predicate, and iswhitespace_predicate: false for ' ', '\t', '\n'
IsTokenChar(pred, c) ==
  IF pred = "isalpha_predicate" THEN IsAlpha(c) ELSE c \notin {32, 9, 10}

Normalize(norm, c) ==
  IF norm = "tolower_normalizer" THEN ToLower(c)
  ELSE IF norm = "toupper_normalizer" THEN ToUpper(c)
  ELSE c

\* Token(buffer, start_pos, start_pos + tok_len)
Token(text, start, end) == [termText |-> text, startPos |-> start, endPos |-> end]

\* The loop of CharTokenizer::next.  input_.eof() is the stream's eofbit,
\* which get() sets when it finds no character to extract; get() then returns
\* Traits::eof().
RECURSIVE NextLoop(_, _, _, _)
NextLoop(t, buffer, tok_len, start_pos) ==
  IF t.eofbit
    THEN IF tok_len # 0
           THEN [t EXCEPT !.tokens = Append(@, Token(buffer, start_pos, start_pos + tok_len)),
                          !.ret = TRUE]
           ELSE [t EXCEPT !.ret = FALSE]
    ELSE LET more == t.read < Len(t.text)
             c == IF more THEN t.text[t.read + 1] ELSE EofChar
             u == [t EXCEPT !.read = IF more THEN @ + 1 ELSE @,
                            !.eofbit = ~more,
                            !.offset = @ + 1]
         IN IF IsTokenChar(t.isTokenChar, c)
              THEN NextLoop(u, Append(buffer, Normalize(t.normalize, c)), tok_len + 1,
                            IF tok_len = 0 THEN u.offset - 1 ELSE start_pos)
              ELSE IF tok_len # 0
              THEN [u EXCEPT !.tokens = Append(@, Token(buffer, start_pos, start_pos + tok_len)),
                             !.ret = TRUE]
              ELSE NextLoop(u, buffer, tok_len, start_pos)

TokenizerInit ==
  /\ DirInit
  /\ codec = CodecIdle
  /\ stream = StreamIdle
  /\ \E pred \in Predicates, norm \in Normalizers, k \in 0..MaxText :
       \E text \in [1..k -> Chars] :
         tokenizer = [TokenizerIdle EXCEPT !.pc = "run", !.isTokenChar = pred,
                                           !.normalize = norm, !.text = text]

\* One call of next(); start_pos is not read before it is assigned.
Tokenizer_Next ==
  /\ tokenizer.pc = "run"
  /\ tokenizer' = NextLoop(tokenizer, <<>>, 0, 0)
  /\ UNCHANGED <<dirvars, mu_, threads, codec, stream>>

TokenizerNext == Tokenizer_Next

SpecTokenizer == TokenizerInit /\ [][TokenizerNext]_vars

\* ============================================================== threads
\* MaxThreads threads call createOutput, obtainLock, openInput, deleteFile on
\* one name and close the writer, reader and lock they hold, statement by
\* statement.  A thread that has called waits at pc = "lock" until mu_ is
\* free; `file->refs_++` and `--file->refs_` are a load and a store.
fname == <<1>>
ReserveOps == {"createOutput", "obtainLock"}
ThreadOps == ReserveOps \cup {"openInput", "deleteFile", "close", "closeInput", "releaseLock"}

\* unrefReader run without mu_.
LockedOps_UnrefUnlocked == ThreadOps \ {"closeInput"}
\* createOutput run without mu_.
LockedOps_CreateUnlocked == ThreadOps \ {"createOutput"}
\* The operations whose body runs under mu_ (lock_guard, or lock() / unlock()).
LockedOps == ThreadOps

ThreadsRunning == fatal = "none"
\* lock_guard's destructor, mu_.unlock()
Released(t) == IF threads[t].op \in LockedOps THEN Unlocked ELSE mu_
\* The call of thread t ends with res.
Returns(t, res) == [threads[t] EXCEPT !.pc = "idle", !.res = res, !.file = DummyFile, !.c = 0]

ThreadsInit ==
  /\ DirInit
  /\ codec = CodecIdle
  /\ stream = StreamIdle
  /\ tokenizer = TokenizerIdle

\* Thread t calls op; closing a writer starts with the "flush" of the length in
\* ~RAMFileIndexOutput, closing a reader passes its file to unrefReader.
T_Call(t, op) ==
  /\ ThreadsRunning
  /\ threads[t].pc = "idle"
  /\ CASE op = "createOutput" -> threads[t].writer = 0 /\ FreshIds(ramfiles) # {}
       [] op = "obtainLock" -> ~threads[t].lock
       [] op = "openInput" -> threads[t].reader = 0
       [] op = "deleteFile" -> TRUE
       [] op = "close" -> threads[t].writer # 0
       [] op = "closeInput" -> threads[t].reader # 0
       [] op = "releaseLock" -> threads[t].lock
  /\ threads' = [threads EXCEPT ![t] =
       [@ EXCEPT !.pc = "lock", !.op = op, !.res = "none",
                 !.file = IF op = "closeInput" THEN threads[t].reader ELSE DummyFile,
                 !.raced = /\ op \in ReserveOps
                           /\ \E u \in ThreadIds \ {t} :
                                threads[u].op \in ReserveOps /\ threads[u].pc # "idle"]]
  /\ ramfiles' = IF op = "close"
                   THEN [ramfiles EXCEPT ![threads[t].writer].length =
                                            Max(@, outputs[threads[t].writer].pos)]
                   ELSE ramfiles
  /\ UNCHANGED <<files, dummy_refs, outputs, inputs, lockfiles, todelete, deallocs, fatal,
                 last, codec, stream, tokenizer, mu_>>

\* std::lock_guard<std::mutex> guard(mu_) / mu_.lock()
T_Acquire(t) ==
  /\ ThreadsRunning
  /\ threads[t].pc = "lock"
  /\ IF threads[t].op \in LockedOps THEN mu_ = Unlocked /\ mu_' = t ELSE UNCHANGED mu_
  /\ threads' = [threads EXCEPT ![t].pc = IF threads[t].op = "closeInput" THEN "load"
                                          ELSE "body"]
  /\ UNCHANGED <<dirvars, codec, stream, tokenizer>>

\* createOutput: files.find(fname) and the throw
T_CreateOutput_Find(t) ==
  /\ ThreadsRunning
  /\ threads[t].pc = "body"
  /\ threads[t].op = "createOutput"
  /\ IF fname \in DOMAIN files
       THEN threads' = [threads EXCEPT ![t] = Returns(t, "FileAlreadyExists")]
            /\ mu_' = Released(t)
       ELSE threads' = [threads EXCEPT ![t].pc = "new"] /\ UNCHANGED mu_
  /\ UNCHANGED <<dirvars, codec, stream, tokenizer>>

\* createOutput: new RAMFileIndexOutput(this, fname), which allocates the RAMFile
T_CreateOutput_New(t) ==
  /\ ThreadsRunning
  /\ threads[t].pc = "new"
  /\ threads[t].op = "createOutput"
  /\ FreshIds(ramfiles) # {}
  /\ LET f == Fresh(ramfiles) IN
       /\ ramfiles' = [ramfiles EXCEPT ![f] = [NoFile EXCEPT !.st = "alive", !.name = fname]]
       /\ outputs' = [outputs EXCEPT ![f] = [NoOutput EXCEPT !.st = "open"]]
       /\ threads' = [threads EXCEPT ![t] = [@ EXCEPT !.pc = "insert", !.writer = f]]
  /\ UNCHANGED <<files, dummy_refs, inputs, lockfiles, todelete, deallocs, fatal, last,
                 codec, stream, tokenizer, mu_>>

\* obtainLock: files.find(fname) and the null return
T_ObtainLock_Find(t) ==
  /\ ThreadsRunning
  /\ threads[t].pc = "body"
  /\ threads[t].op = "obtainLock"
  /\ IF fname \in DOMAIN files
       THEN threads' = [threads EXCEPT ![t] = Returns(t, "null")]
            /\ mu_' = Released(t)
       ELSE threads' = [threads EXCEPT ![t].pc = "new"] /\ UNCHANGED mu_
  /\ UNCHANGED <<dirvars, codec, stream, tokenizer>>

\* obtainLock: new RAMDirectoryLockFile(this, fname)
T_ObtainLock_New(t) ==
  /\ ThreadsRunning
  /\ threads[t].pc = "new"
  /\ threads[t].op = "obtainLock"
  /\ threads' = [threads EXCEPT ![t] = [@ EXCEPT !.pc = "insert", !.lock = TRUE]]
  /\ UNCHANGED <<dirvars, codec, stream, tokenizer, mu_>>

\* files[fname] = const_cast<RAMFile *>(&dummy_file), in createOutput and obtainLock
T_Insert(t) ==
  /\ ThreadsRunning
  /\ threads[t].pc = "insert"
  /\ files' = Put(files, fname, DummyFile)
  /\ threads' = [threads EXCEPT ![t].pc = "return"]
  /\ UNCHANGED <<ramfiles, dummy_refs, outputs, inputs, lockfiles, todelete, deallocs,
                 fatal, last, codec, stream, tokenizer, mu_>>

\* return, with the lock_guard's destructor
T_Return(t) ==
  /\ ThreadsRunning
  /\ threads[t].pc = "return"
  /\ threads' = [threads EXCEPT ![t] = Returns(t, "ok")]
  /\ mu_' = Released(t)
  /\ UNCHANGED <<dirvars, codec, stream, tokenizer>>

\* openInput up to new RAMFileIndexInput(file), whose constructor asserts
\* file->length
T_OpenInput_Find(t) ==
  /\ ThreadsRunning
  /\ threads[t].pc = "body"
  /\ threads[t].op = "openInput"
  /\ IF fname \notin DOMAIN files
       THEN /\ threads' = [threads EXCEPT ![t] = Returns(t, "FileNotFound")]
            /\ mu_' = Released(t)
            /\ UNCHANGED fatal
       ELSE IF files[fname] = DummyFile \/ ramfiles[files[fname]].length = 0
         THEN fatal' = "assert" /\ UNCHANGED <<threads, mu_>>
         ELSE /\ threads' = [threads EXCEPT ![t] = [@ EXCEPT !.pc = "load",
                                                             !.file = files[fname]]]
              /\ UNCHANGED <<fatal, mu_>>
  /\ UNCHANGED <<files, ramfiles, dummy_refs, outputs, inputs, lockfiles, todelete,
                 deallocs, last, codec, stream, tokenizer>>

\* The read of file->refs_ in file->refs_++ and --file->refs_; a file that
\* was deleted is read after free.
T_Load(t) ==
  /\ ThreadsRunning
  /\ threads[t].pc = "load"
  /\ IF ramfiles[threads[t].file].st = "alive"
       THEN /\ threads' = [threads EXCEPT ![t] = [@ EXCEPT !.pc = "store",
                                                 !.c = ramfiles[threads[t].file].refs_]]
            /\ UNCHANGED fatal
       ELSE fatal' = "ub" /\ UNCHANGED threads
  /\ UNCHANGED <<files, ramfiles, dummy_refs, outputs, inputs, lockfiles, todelete,
                 deallocs, last, codec, stream, tokenizer, mu_>>

\* The write of file->refs_: the value read plus one in openInput, which then
\* has its reader; minus one, kept in c / ref_count, in unrefReader and
\* deleteFile.
T_Store(t) ==
  /\ ThreadsRunning
  /\ threads[t].pc = "store"
  /\ LET th == threads[t]
         c == IF th.op = "openInput" THEN th.c + 1 ELSE th.c - 1
     IN /\ ramfiles' = [ramfiles EXCEPT ![th.file].refs_ = c]
        /\ threads' = [threads EXCEPT ![t] =
             [@ EXCEPT !.c = c,
                       !.pc = IF th.op = "openInput" THEN "return" ELSE "unlock",
                       !.reader = IF th.op = "openInput" THEN th.file
                                  ELSE IF th.op = "closeInput" THEN 0 ELSE @]]
  /\ UNCHANGED <<files, dummy_refs, outputs, inputs, lockfiles, todelete, deallocs, fatal,
                 last, codec, stream, tokenizer, mu_>>

\* mu_.unlock() in unrefReader and deleteFile
T_Unlock(t) ==
  /\ ThreadsRunning
  /\ threads[t].pc = "unlock"
  /\ mu_' = Released(t)
  /\ threads' = [threads EXCEPT ![t].pc = "delete"]
  /\ UNCHANGED <<dirvars, codec, stream, tokenizer>>

\* if (!c) delete file; ~RAMFile asserts refs_ == 0
T_Delete(t) ==
  /\ ThreadsRunning
  /\ threads[t].pc = "delete"
  /\ LET f == threads[t].file IN
       IF threads[t].c # 0
         THEN /\ threads' = [threads EXCEPT ![t] = Returns(t, "ok")]
              /\ UNCHANGED <<ramfiles, deallocs, fatal>>
         ELSE IF ramfiles[f].st # "alive"
           THEN fatal' = "ub" /\ UNCHANGED <<threads, ramfiles, deallocs>>
           ELSE IF ramfiles[f].refs_ # 0
             THEN fatal' = "assert" /\ UNCHANGED <<threads, ramfiles, deallocs>>
             ELSE /\ ramfiles' = [ramfiles EXCEPT ![f].st = "deleted"]
                  /\ deallocs' = [deallocs EXCEPT ![f] = @ + 1]
                  /\ threads' = [threads EXCEPT ![t] = Returns(t, "ok")]
                  /\ UNCHANGED fatal
  /\ UNCHANGED <<files, dummy_refs, outputs, inputs, lockfiles, todelete, last, codec,
                 stream, tokenizer, mu_>>

\* deleteFile up to files.erase(it); for a missing name, unlock and throw
T_DeleteFile_Find(t) ==
  /\ ThreadsRunning
  /\ threads[t].pc = "body"
  /\ threads[t].op = "deleteFile"
  /\ IF fname \notin DOMAIN files
       THEN /\ threads' = [threads EXCEPT ![t] = Returns(t, "FileNotFound")]
            /\ mu_' = Released(t)
            /\ UNCHANGED <<files, fatal>>
       ELSE IF files[fname] = DummyFile
         THEN fatal' = "assert" /\ UNCHANGED <<threads, mu_, files>>
         ELSE /\ files' = Erase(files, fname)
              /\ threads' = [threads EXCEPT ![t] = [@ EXCEPT !.pc = "load",
                                                             !.file = files[fname]]]
              /\ UNCHANGED <<fatal, mu_>>
  /\ UNCHANGED <<ramfiles, dummy_refs, outputs, inputs, lockfiles, todelete, deallocs,
                 last, codec, stream, tokenizer>>

\* commit, called by the writer's destructor: files[fname] in the assertion
\* inserts a null entry for a missing name.
T_Commit(t) ==
  /\ ThreadsRunning
  /\ threads[t].pc = "body"
  /\ threads[t].op = "close"
  /\ LET f == threads[t].writer IN
       IF fname \in DOMAIN files /\ files[fname] = DummyFile
         THEN /\ ramfiles' = [ramfiles EXCEPT ![f].refs_ = 1]
              /\ files' = Put(files, fname, f)
              /\ outputs' = [outputs EXCEPT ![f].st = "closed"]
              /\ threads' = [threads EXCEPT ![t] = [@ EXCEPT !.pc = "return", !.writer = 0]]
              /\ UNCHANGED fatal
         ELSE /\ fatal' = "assert"
              /\ files' = IF fname \in DOMAIN files THEN files ELSE Put(files, fname, NullPtr)
              /\ UNCHANGED <<ramfiles, outputs, threads>>
  /\ UNCHANGED <<dummy_refs, inputs, lockfiles, todelete, deallocs, last, codec, stream,
                 tokenizer, mu_>>

\* releaseLock, called by the lock handle
T_ReleaseLock(t) ==
  /\ ThreadsRunning
  /\ threads[t].pc = "body"
  /\ threads[t].op = "releaseLock"
  /\ IF fname \in DOMAIN files /\ files[fname] # DummyFile
       THEN fatal' = "assert" /\ UNCHANGED <<files, threads>>
       ELSE /\ files' = Erase(files, fname)
            /\ threads' = [threads EXCEPT ![t] = [@ EXCEPT !.pc = "return", !.lock = FALSE]]
            /\ UNCHANGED fatal
  /\ UNCHANGED <<ramfiles, dummy_refs, outputs, inputs, lockfiles, todelete, deallocs,
                 last, codec, stream, tokenizer, mu_>>

\* The thread that holds a writer writes a byte with it.
T_WriteByte(t) ==
  /\ ThreadsRunning
  /\ threads[t].pc = "idle"
  /\ threads[t].writer # 0
  /\ outputs[threads[t].writer].pos < MaxLen
  /\ outputs' = [outputs EXCEPT ![threads[t].writer].pos = @ + 1]
  /\ UNCHANGED <<files, ramfiles, dummy_refs, inputs, lockfiles, todelete, deallocs, fatal,
                 last, codec, stream, tokenizer, mu_, threads>>

ThreadsNext ==
  \E t \in ThreadIds :
    \/ \E op \in ThreadOps : T_Call(t, op)
    \/ T_Acquire(t)
    \/ T_CreateOutput_Find(t)
    \/ T_CreateOutput_New(t)
    \/ T_ObtainLock_Find(t)
    \/ T_ObtainLock_New(t)
    \/ T_Insert(t)
    \/ T_Return(t)
    \/ T_OpenInput_Find(t)
    \/ T_Load(t)
    \/ T_Store(t)
    \/ T_Unlock(t)
    \/ T_Delete(t)
    \/ T_DeleteFile_Find(t)
    \/ T_Commit(t)
    \/ T_ReleaseLock(t)
    \/ T_WriteByte(t)

SpecThreads == ThreadsInit /\ [][ThreadsNext]_vars

\* ================================================================ claims
HeldLocks == {l \in LockIds : lockfiles[l].st = "held"}
OpenWriters == {f \in FileIds : outputs[f].st = "open"}
OpenReaders == {r \in ReaderIds : inputs[r].st = "open"}
IsPrefix(s, t) == Len(s) <= Len(t) /\ s = SubSeq(t, 1, Len(s))
FileView(f) == [length |-> ramfiles[f].length, blocks_ |-> ramfiles[f].blocks_]
\* Everything of the directory a failed call must leave alone.
DirState == <<files, ramfiles, dummy_refs, outputs, inputs, lockfiles, todelete,
              deallocs, fatal>>

\* C1: the file of an open reader is never deallocated, no thread is about to
\* delete it, and the bytes the reader has read are the first bytes of the
\* file's blocks; in particular after deleteFile removed the file's entry.
C1_OpenReaderKeepsFile ==
  \A r \in OpenReaders :
    LET f == inputs[r].file IN
      /\ f \in FileIds
      /\ ramfiles[f].st = "alive"
      /\ deallocs[f] = 0
      /\ todelete[f] = 0
      /\ Len(inputs[r].got) <= ramfiles[f].length
      /\ IsPrefix(inputs[r].got, ramfiles[f].blocks_)

\* A reader has just read a byte of a file that deleteFile removed from the table.
C1_Witness ==
  \E r \in OpenReaders :
    /\ ~InTable(inputs[r].file)
    /\ Len(inputs[r].got) >= 1
    /\ last.op = "readByte"

\* C2: a committed file is deallocated at most once, and it is deallocated
\* (or the thread that dropped the last reference stands before `delete file`)
\* exactly when it is out of the table and has no open reader; a file that was
\* not committed is not deallocated.
C2_DeallocatedExactlyOnce ==
  \A f \in FileIds :
    /\ todelete[f] + deallocs[f] <= 1
    /\ (ramfiles[f].st = "freed") = (deallocs[f] = 1)
    /\ IF outputs[f].st = "closed"
         THEN (todelete[f] + deallocs[f] = 1) = (~InTable(f) /\ OpenReadersOf(f) = {})
         ELSE todelete[f] + deallocs[f] = 0

\* A file was committed, read, deleted and has just been deallocated.
C2_Witness ==
  \E f \in FileIds :
    /\ ramfiles[f].st = "freed"
    /\ deallocs[f] = 1
    /\ last.op = "delete"

C4_OneWriterPerName ==
  \A f \in OpenWriters, g \in OpenWriters :
    f # g => ramfiles[f].name # ramfiles[g].name

\* C5: an obtainLock call returns a handle exactly when the name is absent
\* from the table, and no handle otherwise; a granted call leaves the name
\* reserved as a placeholder with one more live handle on it, a refused call
\* changes nothing, so of two calls for one absent name the first is granted
\* and the second refused; a release that completes leaves the name absent,
\* so that the next obtainLock for it is granted.
C5_ObtainLockExclusive ==
  [][
      /\ (last'.op = "obtainLock") =>
            /\ last'.res \in {"ok", "null"}
            /\ (last'.res = "ok") = (last'.name \notin DOMAIN files)
            /\ (last'.res = "ok") =>
                 /\ files' = Put(files, last'.name, DummyFile)
                 /\ \E l \in LockIds \ HeldLocks :
                      lockfiles' = [lockfiles EXCEPT ![l] = [st |-> "held", name |-> last'.name]]
            /\ (last'.res = "null") => UNCHANGED DirState
      /\ (last'.op = "releaseLock" /\ last'.res # "fatal") =>
            (last'.name \notin DOMAIN files')
    ]_vars

\* A second obtainLock for a name whose lock is held has just been refused.
C5_Witness ==
  /\ last.op = "obtainLock"
  /\ last.res = "null"
  /\ \E l \in HeldLocks : lockfiles[l].name = last.name

\* C6: a live lock handle's name is in the table as a placeholder, and no two
\* live handles share a name.
C6_LockOwnsPlaceholder ==
  /\ \A l \in HeldLocks :
       /\ lockfiles[l].name \in DOMAIN files
       /\ files[lockfiles[l].name] = DummyFile
  /\ \A l \in HeldLocks, m \in HeldLocks :
       l # m => lockfiles[l].name # lockfiles[m].name

\* C7: createOutput on an occupied name fails with FileAlreadyExists and
\* leaves the table, the reference counts, the files and the streams as they
\* were; no writer comes into existence.
C7_CreateOutputOnOccupied ==
  [][(last'.op = "createOutput" /\ last'.name \in DOMAIN files) =>
       /\ last'.res = "FileAlreadyExists"
       /\ UNCHANGED DirState]_vars

\* createOutput has just failed on a name bound to a committed file.
C7_Witness ==
  /\ last.op = "createOutput"
  /\ last.res = "FileAlreadyExists"
  /\ last.name \in DOMAIN files
  /\ files[last.name] \in FileIds

\* C8: openInput, fileLength and deleteFile on an absent name fail with
\* FileNotFound and leave the table and the reference counts as they were.
C8_AbsentNameNotFound ==
  [][(last'.op \in {"openInput", "fileLength", "deleteFile"}
        /\ last'.name \notin DOMAIN files) =>
       /\ last'.res = "FileNotFound"
       /\ UNCHANGED DirState]_vars

\* deleteFile has just failed on a name that a previous deleteFile removed.
C8_Witness ==
  /\ last.op = "deleteFile"
  /\ last.res = "FileNotFound"
  /\ \E f \in FileIds : ramfiles[f].name = last.name /\ outputs[f].st = "closed"

\* The 7-bit groups of a value: the number of groups up to its highest set
\* bit (one for zero), and the value of group i.
BitLength(x) == IF \A i \in 1..Len(x) : x[i] = 0 THEN 0
                ELSE CHOOSE i \in 1..Len(x) : x[i] = 1 /\ \A j \in (i + 1)..Len(x) : x[j] = 0
Groups(x) == IF BitLength(x) = 0 THEN 1 ELSE (BitLength(x) + 6) \div 7
GroupBit(x, i) == IF i <= Len(x) THEN x[i] ELSE 0
Group(x, i) ==
  GroupBit(x, 7 * i - 6) + 2 * GroupBit(x, 7 * i - 5) + 4 * GroupBit(x, 7 * i - 4)
    + 8 * GroupBit(x, 7 * i - 3) + 16 * GroupBit(x, 7 * i - 2)
    + 32 * GroupBit(x, 7 * i - 1) + 64 * GroupBit(x, 7 * i)

\* C9: reading back what was written returns the value written, for the fixed
\* and the varint codec of both widths.
C9_CodecRoundTrip ==
  (codec.pc = "read" /\ codec.kind # "String") =>
    (codec.err = "none" /\ codec.out = codec.num)

\* C10: a varint is written as one byte per 7-bit group of the value, byte i
\* holding group i in its low 7 bits, with 0x80 set on every byte but the last;
\* that is at most 5 bytes for a 32-bit and 10 for a 64-bit value.
C10_VarintWireFormat ==
  (codec.pc \in {"written", "read"} /\ codec.kind \in {"Varint32", "Varint64"}) =>
    /\ Len(codec.bytes) = Groups(codec.num)
    /\ Len(codec.bytes) <= (IF codec.kind = "Varint32" THEN kMaxVarintLength32
                            ELSE kMaxVarintLength64)
    /\ \A i \in 1..Len(codec.bytes) :
         /\ codec.bytes[i] % 128 = Group(codec.num, i)
         /\ (codec.bytes[i] >= 128) = (i < Len(codec.bytes))

\* C11: readString on what writeString(s) wrote yields s: it decodes the size
\* of s without error, and so returns all the bytes of s and no others.
C11_StringRoundTrip ==
  (codec.pc = "read" /\ codec.kind = "String") =>
    (codec.err = "none" /\ codec.out = codec.num)

\* The committed file of the stream run: its bytes are those the writer
\* wrote, at positions [0, N).
N == stream.file.length
Data(from, to) == SubSeq(stream.written, from + 1, to)
StreamRead == stream.pc = "read"

\* C12: seek(p) is accepted for every 0 <= p <= N and places the reader at p;
\* after a seek, readByte returns the file's byte at the reader's offset while
\* that offset is below N, and no byte at N.
C12_SeekThenRead ==
  StreamRead =>
    /\ (stream.res.op = "seek" /\ stream.res.arg <= N) =>
         (stream.fatal = "none" /\ Offset(stream.in) = stream.res.arg)
    /\ (stream.res.op = "readByte" /\ stream.in.seeks > 0) =>
         /\ stream.fatal = "none"
         /\ IF stream.res.at < N
              THEN stream.res.err = "none"
                   /\ stream.res.bytes = <<stream.written[stream.res.at + 1]>>
              ELSE stream.res.err = "IndexCorruption" /\ stream.res.bytes = <<>>

\* C13: eof() is true exactly when the reader has consumed the N bytes of the
\* file, and readByte at the end fails with IndexCorruption and returns no byte.
C13_EofAtLength ==
  StreamRead =>
    /\ stream.res.op = "eof" =>
         (stream.fatal = "none" /\ stream.res.eof = (stream.res.at >= N))
    /\ (stream.res.op = "readByte" /\ stream.res.at >= N) =>
         /\ stream.fatal = "none"
         /\ stream.res.err = "IndexCorruption"
         /\ stream.res.bytes = <<>>

\* C14: read(dst, n) at offset q <= N copies the bytes [q, q + min(n, N - q))
\* of the file and nothing else, and raises no error.
C14_ReadCopiesUpToLength ==
  (StreamRead /\ stream.res.op = "read" /\ stream.res.at <= N) =>
    /\ stream.fatal = "none"
    /\ stream.res.err = "none"
    /\ stream.res.bytes =
         Data(stream.res.at, stream.res.at + Min(stream.res.arg, N - stream.res.at))

\* The bytes of the file from the offset of the last call on, and whether a
\* varint starting there is cut off by the end of the file.
Rest == Data(stream.res.at, N)
VarintCut(bytes, max) == Len(bytes) < max /\ \A i \in 1..Len(bytes) : bytes[i] >= 128
\* The size prefix of a string is whole but the string is not.
StringCut(bytes) ==
  \E k \in 1..Min(Len(bytes), kMaxVarintLength32) :
    /\ bytes[k] < 128
    /\ \A i \in 1..(k - 1) : bytes[i] >= 128
    /\ SizeOf(ReadVarint32(bytes).out) > Len(bytes) - k

\* C15: a fixed-width integer, a varint or a string that the end of the file
\* cuts off is reported as IndexCorruption, and no value is returned.
C15_TruncatedIsCorruption ==
  (StreamRead /\ stream.res.at <= N) =>
    LET corrupt == /\ stream.fatal = "none"
                   /\ stream.res.err = "IndexCorruption"
                   /\ stream.res.val = <<>>
    IN /\ (stream.res.op = "readInt" /\ Len(Rest) < stream.res.arg \div 8) => corrupt
       /\ (stream.res.op = "readVarint"
             /\ VarintCut(Rest, IF stream.res.arg = Width32 THEN kMaxVarintLength32
                                ELSE kMaxVarintLength64)) => corrupt
       /\ (stream.res.op = "readString"
             /\ (VarintCut(Rest, kMaxVarintLength32) \/ StringCut(Rest))) => corrupt

\* C16: readVarint32 consumes at most 5 bytes and readVarint64 at most 10, the
\* reader has moved by exactly the bytes consumed, and when that many bytes
\* all carry the continuation bit the call fails with IndexCorruption and
\* returns no value.
C16_VarintLimit ==
  (StreamRead /\ stream.res.op = "readVarint") =>
    LET max == IF stream.res.arg = Width32 THEN kMaxVarintLength32
               ELSE kMaxVarintLength64
    IN /\ Len(stream.res.bytes) <= max
       /\ stream.fatal = "none" => Offset(stream.in) = stream.res.at + Len(stream.res.bytes)
       /\ (Len(stream.res.bytes) = max
             /\ \A i \in 1..max : stream.res.bytes[i] >= 128) =>
            (stream.res.err = "IndexCorruption" /\ stream.res.val = <<>>)

\* readVarint64 has failed on ten continuation bytes, with a further byte of
\* the file left unread.
C16_Witness ==
  /\ StreamRead
  /\ stream.res.op = "readVarint"
  /\ stream.res.arg = Width64
  /\ stream.res.bytes = Run(129, kMaxVarintLength64)
  /\ stream.res.err = "IndexCorruption"
  /\ Offset(stream.in) = kMaxVarintLength64
  /\ N = kMaxVarintLength64 + 1

\* The table without the entries whose names start with the prefix.
WithoutSegment(tbl, segment) ==
  [n \in {m \in DOMAIN tbl : ~StartsWith(m, segment)} |-> tbl[n]]

\* C17: a deleteSegment call leaves in the table exactly the entries whose
\* names do not start with the prefix, bound as before, and leaves the files
\* as they were.
C17_DeleteSegmentExact ==
  [][(last'.op = "deleteSegment") =>
       /\ files' = WithoutSegment(files, last'.name)
       /\ \A n \in DOMAIN files' :
            files'[n] \in FileIds => ramfiles'[files'[n]] = ramfiles[files'[n]]]_vars

\* C18: a deleteSegment call returns normally: it never ends in a failed
\* assertion or a crash.
C18_DeleteSegmentNeverFails ==
  last.op = "deleteSegment" => (last.res = "ok" /\ fatal = "none")

\* C19: rename fails with FileNotFound when src is absent and with
\* FileAlreadyExists when src is present and dst is occupied, dst = src
\* included, and a failed rename changes nothing of the directory.
C19_RenameFailures ==
  [][(last'.op = "rename") =>
       /\ (last'.name \notin DOMAIN files) =>
            (last'.res = "FileNotFound" /\ UNCHANGED DirState)
       /\ (last'.name \in DOMAIN files /\ last'.val \in DOMAIN files) =>
            (last'.res = "FileAlreadyExists" /\ UNCHANGED DirState)
       /\ (last'.res # "ok") => UNCHANGED DirState]_vars

\* rename(src, src) on an occupied name has just failed.
C19_Witness ==
  /\ last.op = "rename"
  /\ last.res = "FileAlreadyExists"
  /\ last.val = last.name
  /\ last.name \in DOMAIN files

\* C20: a successful rename of a committed file moves the entry and nothing
\* else: src is absent, dst is bound to the same file, the other entries, the
\* files (length, bytes, reference counts) and the readers are unchanged;
\* afterwards a reader of the file still reads the file's next byte, and its
\* close takes exactly its reference back.
C20_RenameMovesEntry ==
  [][/\ (last'.op = "rename" /\ last'.res = "ok" /\ files[last'.name] \in FileIds) =>
          /\ last'.name \notin DOMAIN files'
          /\ last'.val \in DOMAIN files'
          /\ files'[last'.val] = files[last'.name]
          /\ \A n \in DOMAIN files : n # last'.name => (n \in DOMAIN files' /\ files'[n] = files[n])
          /\ DOMAIN files' = (DOMAIN files \ {last'.name}) \cup {last'.val}
          /\ UNCHANGED <<ramfiles, dummy_refs, outputs, inputs, lockfiles, todelete,
                         deallocs, fatal>>
     /\ \A r \in OpenReaders :
          LET f == inputs[r].file
              renamed == f \in FileIds /\ \E n \in DOMAIN files : files[n] = f /\ n # ramfiles[f].name
          IN /\ (renamed /\ last'.op = "readByte" /\ inputs'[r] # inputs[r]) =>
                  inputs'[r].got = Append(inputs[r].got,
                                          ramfiles[f].blocks_[Len(inputs[r].got) + 1])
             /\ (renamed /\ last'.op = "closeInput" /\ inputs'[r].st # "open") =>
                  /\ ramfiles'[f] = [ramfiles[f] EXCEPT !.refs_ = @ - 1]
                  /\ ramfiles'[f].refs_ >= 1
                  /\ UNCHANGED <<files, todelete, deallocs, fatal>>
    ]_vars

\* A committed file has just been renamed while a reader was open on it.
C20_Witness ==
  /\ last.op = "rename"
  /\ last.res = "ok"
  /\ last.val \in DOMAIN files
  /\ files[last.val] \in FileIds
  /\ \E r \in OpenReaders : inputs[r].file = files[last.val]

\* The names bound to a committed file, and the names reserved by a writer or
\* a lock.
CommittedNames == {n \in DOMAIN files : files[n] \in FileIds}
PlaceholderNames == {n \in DOMAIN files : files[n] = DummyFile}

\* C21: listAll returns exactly the committed names together with the
\* placeholder names, a name that createOutput has just reserved included;
\* fileExists answers true exactly for those names and never fails; neither
\* call changes the directory.
C21_ListAllIsOccupiedNames ==
  [][/\ (last'.op = "listAll") =>
          /\ last'.res = "ok"
          /\ last'.val = CommittedNames \cup PlaceholderNames
          /\ (last.op = "createOutput" /\ last.res = "ok") => last.name \in last'.val
          /\ UNCHANGED DirState
     /\ (last'.op = "fileExists") =>
          /\ last'.res \in {"true", "false"}
          /\ (last'.res = "true") = (last'.name \in CommittedNames \cup PlaceholderNames)
          /\ UNCHANGED DirState]_vars

\* listAll has just listed a committed file together with the name of a file
\* whose writer is still open.
C21_Witness ==
  /\ last.op = "listAll"
  /\ \E n \in last.val : files[n] \in FileIds
  /\ \E f \in OpenWriters : ramfiles[f].name \in last.val /\ files[ramfiles[f].name] = DummyFile

HoldsMutex(op) == op # "delete"

\* C23: no file is deallocated in a step that holds the directory mutex:
\* whichever operation dropped the last reference, the blocks are freed after
\* the mutex was released.
C23_DeallocatesOutsideMutex ==
  [][\A f \in FileIds : deallocs'[f] # deallocs[f] => ~HoldsMutex(last'.op)]_vars

\* The highest position the writer has reached.
HighWater == Len(stream.written)

\* C24: after every flush, after every seek and after close, the file's
\* length is the highest position the writer has reached, wherever the writer
\* stands then.
C24_LengthIsHighWater ==
  (stream.res.op \in {"flush", "seek", "close"} /\ stream.fatal = "none")
     => stream.file.length = HighWater

\* The writer has been closed below the highest position it reached, after it
\* went back and replaced a byte by another.
C24_Witness ==
  /\ stream.res.op = "close"
  /\ stream.res.at < HighWater
  /\ stream.written # stream.script
  /\ stream.file.length = HighWater

\* The committed files that exist: the writer has closed, the blocks are not
\* freed.
Committed == {f \in FileIds : outputs[f].st = "closed" /\ ramfiles[f].st = "alive"}
Content(f) == SubSeq(ramfiles[f].blocks_, 1, ramfiles[f].length)

\* C25: no step changes the length or the bytes below the length of a
\* committed file, or gives it a writer again, for as long as the file is not
\* deallocated.
C25_CommittedIsImmutable ==
  [][\A f \in Committed :
       ramfiles'[f].st = "alive" =>
         /\ ramfiles'[f].length = ramfiles[f].length
         /\ Content(f)' = Content(f)
         /\ outputs'[f].st = "closed"]_vars

\* A writer on another name has just written a byte while a committed,
\* renamed file with a reader on it exists.
C25_Witness ==
  /\ last.op = "writeByte"
  /\ \E f \in Committed :
       /\ ramfiles[f].length >= 1
       /\ OpenReadersOf(f) # {}
       /\ \E n \in DOMAIN files : files[n] = f /\ n # ramfiles[f].name

\* The maximal runs of characters of the text that satisfy the predicate, from
\* position i on, in order, each normalized and with its offsets.
RECURSIVE RunsFrom(_, _, _, _)
RunsFrom(text, pred, norm, i) ==
  IF i > Len(text) THEN <<>>
  ELSE IF ~IsTokenChar(pred, text[i]) THEN RunsFrom(text, pred, norm, i + 1)
  ELSE LET j == CHOOSE j \in i..Len(text) :
                  /\ \A k \in i..j : IsTokenChar(pred, text[k])
                  /\ j = Len(text) \/ ~IsTokenChar(pred, text[j + 1])
       IN <<Token([k \in 1..(j - i + 1) |-> Normalize(norm, text[i + k - 1])], i - 1, j)>>
            \o RunsFrom(text, pred, norm, j + 1)

\* C26: the tokens that successive next() calls have produced are the first
\* maximal runs of the input, in order, normalized, with startPos the offset
\* of the run's first character and endPos - startPos its length; next()
\* returns false only when every run was produced, and produces nothing more.
C26_TokenSequence ==
  tokenizer.pc = "run" =>
    LET runs == RunsFrom(tokenizer.text, tokenizer.isTokenChar, tokenizer.normalize, 1)
    IN /\ Len(tokenizer.tokens) <= Len(runs)
       /\ tokenizer.tokens = SubSeq(runs, 1, Len(tokenizer.tokens))
       /\ ~tokenizer.ret => tokenizer.tokens = runs

\* C27: while the directory exists, the placeholder entry of an open writer's
\* name stays a placeholder until that writer closes, and then the name is
\* bound to that writer's file; the placeholder entry of a live lock handle's
\* name stays a placeholder until that handle is released.
C27_OwnerOnlyTransitions ==
  [][(last'.op # "~RAMDirectory") =>
       /\ \A f \in OpenWriters :
            ramfiles[f].name \in PlaceholderNames =>
              \/ ramfiles[f].name \in PlaceholderNames'
              \/ (outputs'[f].st = "closed" /\ ramfiles[f].name \in DOMAIN files'
                    /\ files'[ramfiles[f].name] = f)
       /\ \A l \in HeldLocks :
            lockfiles[l].name \in PlaceholderNames =>
              \/ lockfiles[l].name \in PlaceholderNames'
              \/ lockfiles'[l].st # "held"]_vars

\* C28: every close of a writer finds the writer's name in the table, bound
\* to the placeholder, so the close completes, and it leaves the table with
\* the same names, that name bound to the writer's file and the other
\* entries as they were.
C28_CommitFindsPlaceholder ==
  [][(last'.op = "close") =>
       /\ last'.name \in PlaceholderNames
       /\ last'.res = "ok"
       /\ fatal' = "none"
       /\ DOMAIN files' = DOMAIN files
       /\ \A n \in DOMAIN files : n # last'.name => files'[n] = files[n]]_vars

\* C29: the name of a live lock handle is never bound to a file, and a
\* release never ends in the failed assertion of releaseLock.
C29_LockNeverCommitted ==
  /\ \A l \in HeldLocks : lockfiles[l].name \notin CommittedNames
  /\ last.op = "releaseLock" => last.res # "fatal"

\* The reference counts of the committed files.
FileRefsExact ==
  \A f \in Committed :
    IF InTable(f)
      THEN ramfiles[f].refs_ = 1 + Cardinality(OpenReadersOf(f))
      ELSE /\ ramfiles[f].refs_ = Cardinality(OpenReadersOf(f))
           /\ todelete[f] = 0 => ramfiles[f].refs_ >= 1

\* C30: a committed file in the table has reference count 1 + its open
\* readers; one out of the table and not being deleted has its open readers,
\* at least one; no reference count is negative, that of the shared
\* placeholder object included.
C30_RefCounts ==
  /\ FileRefsExact
  /\ \A f \in FileIds : ramfiles[f].refs_ >= 0
  /\ dummy_refs >= 0

\* C38: openInput on a name bound to a committed file, an empty one included,
\* returns a reader on that file and takes one reference; it does not stop
\* the program.
C38_OpenInputOnCommitted ==
  [][(last'.op = "openInput" /\ last'.name \in CommittedNames) =>
       /\ last'.res = "ok"
       /\ fatal' = "none"
       /\ \E r \in ReaderIds \ OpenReaders :
            /\ inputs'[r].st = "open"
            /\ inputs'[r].file = files[last'.name]
       /\ ramfiles'[files[last'.name]].refs_ = ramfiles[files[last'.name]].refs_ + 1]_vars

\* C39: deleteFile on an occupied name, a placeholder included, completes:
\* the entry is removed, the count of the file it was bound to is one lower,
\* and the count of the shared placeholder object is as it was.
C39_DeleteFileOnOccupied ==
  [][(last'.op = "deleteFile" /\ last'.name \in DOMAIN files) =>
       /\ last'.res = "ok"
       /\ fatal' = "none"
       /\ files' = Erase(files, last'.name)
       /\ dummy_refs' = dummy_refs
       /\ files[last'.name] \in FileIds =>
            ramfiles'[files[last'.name]].refs_ = ramfiles[files[last'.name]].refs_ - 1]_vars

\* C40: fileLength on a placeholder, of a lock or of a writer that is still
\* open, succeeds with 0 whatever the writer has written or flushed; on a
\* committed name it returns the length the file has; it changes nothing.
C40_FileLengthOnPlaceholder ==
  [][(last'.op = "fileLength" /\ last'.name \in DOMAIN files) =>
       /\ last'.res = "ok"
       /\ last'.name \in PlaceholderNames => last'.val = 0
       /\ last'.name \in CommittedNames => last'.val = ramfiles[files[last'.name]].length
       /\ UNCHANGED DirState]_vars

\* fileLength has just returned 0 for the name of an open writer that has
\* flushed a byte.
C40_Witness ==
  /\ last.op = "fileLength"
  /\ last.res = "ok"
  /\ last.val = 0
  /\ last.name \in PlaceholderNames
  /\ \E f \in OpenWriters : ramfiles[f].name = last.name /\ ramfiles[f].length >= 1

\* The byte of the file at position i, counted from 0; Junk where no block
\* was allocated.
Cell(file, i) ==
  IF i \div kBlockSize < Len(file.blocks_)
    THEN file.blocks_[(i \div kBlockSize) + 1][(i % kBlockSize) + 1]
    ELSE Junk

\* C36: a write(ptr, n) at position q does not stop the program, leaves the
\* position at q + n and the n bytes, in order, at the file positions
\* q .. q + n - 1; so the file holds, position by position, the last byte
\* written there, which without seeks is the concatenation of what was written.
C36_WriteSplitting ==
  (stream.pc = "write" /\ stream.res.op = "write") =>
    /\ stream.fatal = "none"
    /\ stream.out.pos = stream.res.at + stream.res.arg
    /\ \A i \in 1..stream.res.arg :
         Cell(stream.file, stream.res.at + i - 1) = stream.res.bytes[i]
    /\ \A i \in 1..Len(stream.written) : Cell(stream.file, i - 1) = stream.written[i]

\* A write longer than a block has just been made from the middle of a block,
\* and no byte was ever overwritten.
C36_Witness ==
  /\ stream.pc = "write"
  /\ stream.res.op = "write"
  /\ stream.res.arg > kBlockSize
  /\ stream.res.at % kBlockSize # 0
  /\ stream.out.pos = Len(stream.written)
  /\ stream.written = stream.script
  /\ stream.fatal = "none"

\* The blocks that hold n bytes.
BlocksFor(n) == (n + kBlockSize - 1) \div kBlockSize
\* The file under construction has a block that no written byte lies in.
TrailingBlock == Len(stream.file.blocks_) > BlocksFor(HighWater)

\* C37: a file under construction has at least the blocks its length needs and
\* at most one block more than the highest position reached needs; a step
\* after which there is such a spare block, and before which there was none,
\* is a flush or a seek, never a write.
C37_BlockCount ==
  [][/\ Len(stream'.file.blocks_) >= BlocksFor(stream'.file.length)
     /\ Len(stream'.file.blocks_) <= BlocksFor(HighWater') + 1
     /\ (TrailingBlock' /\ ~TrailingBlock) => stream'.res.op \in {"flush", "seek"}]_vars

\* A flush on a full last block has left a spare block behind the data.
C37_Witness ==
  /\ stream.pc = "write"
  /\ stream.res.op = "flush"
  /\ HighWater >= kBlockSize
  /\ TrailingBlock
  /\ stream.fatal = "none"

\* C35: getCurrentPosition() of the writer and of the reader is the file
\* offset of the byte at the cursor, so it is p right after seek(p).
C35_PositionIsOffset ==
  /\ (stream.pc = "write" /\ stream.fatal = "none") => stream.out.pos = Offset(stream.out)
  /\ (stream.pc = "read" /\ stream.fatal = "none") =>
       /\ stream.in.pos = Offset(stream.in)
       /\ stream.res.op = "seek" => stream.in.pos = stream.res.arg

\* C34: a writer that has a buffer has start <= cursor <= end, and a reader
\* that has one has start <= cursor <= sentinel <= end, after every write,
\* flush, seek, read and refill.
C34_BufferWindow ==
  /\ (stream.pc = "write" /\ stream.out.hasBuffer) =>
       /\ stream.out.bufStart <= stream.out.bufCur
       /\ stream.out.bufCur <= stream.out.bufEnd
  /\ (stream.pc = "read" /\ stream.in.hasBuffer) =>
       /\ stream.in.bufStart <= stream.in.bufCur
       /\ stream.in.bufCur <= stream.in.sentinel
       /\ stream.in.sentinel <= stream.in.bufEnd

\* A reader has read up to a sentinel that stands before the end of its
\* block.
C34_Witness ==
  /\ stream.pc = "read"
  /\ stream.fatal = "none"
  /\ stream.in.hasBuffer
  /\ stream.in.bufStart < stream.in.bufCur
  /\ stream.in.bufCur = stream.in.sentinel
  /\ stream.in.sentinel < stream.in.bufEnd

\* The references to RAMFile f: the table's, one per reader, and the table's
\* reference that a deleteFile has erased and not yet taken off the count.
RefsExpected(f) ==
  (IF InTable(f) THEN 1 ELSE 0)
    + Cardinality({t \in ThreadIds : threads[t].reader = f})
    + Cardinality({t \in ThreadIds : /\ threads[t].op = "deleteFile"
                                     /\ threads[t].pc \in {"load", "store"}
                                     /\ threads[t].file = f})

Holders == {t \in ThreadIds : threads[t].writer # 0 \/ threads[t].lock}

\* C32: at most one thread has a writer or a lock handle for the name; a
\* createOutput or obtainLock call that ends has reserved the name for its
\* thread if it succeeds, and otherwise fails with FileAlreadyExists (null
\* for obtainLock) on a name that is occupied.
C32_ReservesAtomically ==
  [][/\ Cardinality(Holders') <= 1
     /\ \A t \in ThreadIds :
          (threads[t].op \in ReserveOps /\ threads[t].pc # "idle" /\ threads'[t].pc = "idle")
            => IF threads'[t].res = "ok"
                 THEN t \in Holders' /\ fname \in DOMAIN files' /\ files'[fname] = DummyFile
                 ELSE /\ threads'[t].res = IF threads[t].op = "createOutput"
                                             THEN "FileAlreadyExists" ELSE "null"
                      /\ fname \in DOMAIN files
                      /\ threads'[t].writer = threads[t].writer
                      /\ threads'[t].lock = threads[t].lock]_vars

\* Two createOutput calls overlapped: one returned a writer, the other, made
\* while the first was in progress, failed with FileAlreadyExists.
C32_Witness ==
  \E t, u \in ThreadIds :
    /\ t # u
    /\ threads[t].op = "createOutput"
    /\ threads[t].pc = "idle"
    /\ threads[t].res = "ok"
    /\ threads[t].writer # 0
    /\ threads[u].op = "createOutput"
    /\ threads[u].pc = "idle"
    /\ threads[u].res = "FileAlreadyExists"
    /\ threads[u].raced
    /\ threads[u].writer = 0
    /\ ~threads[u].lock

\* C33: the name of every writer that exists is in the table.
C33_ReservedBeforeWriter ==
  \A f \in FileIds : outputs[f].st = "open" => ramfiles[f].name \in DOMAIN files

====
